---- MODULE Spec2Model ----
(***************************************************************************)
(* Model of the vue-tdd-automation test generator                          *)
(* (lib/test-generator/index.ts, ai-generator.ts, enhanced-scaffold and    *)
(* copilot-scaffold).                                                      *)
(*                                                                         *)
(* A JavaScript string is a sequence of atoms.  An atom is either one      *)
(* character of user input or one literal chunk of a template literal of   *)
(* the source, so that string concatenation is \o and two texts are        *)
(* byte-identical exactly when the two sequences are equal.                *)
(***************************************************************************)
EXTENDS Integers, Sequences, FiniteSets, TLC

VARIABLES
  componentName,  \* argument of generateTestContent
  requirements,   \* argument of generateTestContent (TestRequirements)
  options,        \* argument of generateTestContent (TestGenerationOptions)
  env,            \* process.env: OPENAI_API_KEY, GITHUB_TOKEN
  pc,             \* position of generateTestContent
  cur,            \* index of the section generateTestContent is at (1..5), 6 after the last
  testCases,      \* the array Promise.all fills for the section being generated
  inflight,       \* indexes of testCases whose fetch() has not settled yet
  sections,       \* the local array "sections" of generateTestContent
  output,         \* the text generateTestContent resolved to
  httpCount,      \* number of fetch() calls issued so far
  aiStatusLog,    \* what lines 38-46 logged about the AI configuration
  gotValue,       \* some generateTestWithAI call resolved to a string (not null)
  outOfOrder,     \* some fetch() settled while an earlier one of the same section was pending
  aiConfig,       \* argument config of a direct generateTestWithAI call
  aiPc,           \* position of that call
  aiOutcome,      \* how its fetch() settled ("nokey" when none was issued)
  aiReturned,     \* the value it resolved to
  aiFetches,      \* number of fetch() calls it issued
  aiEndpoint,     \* the URL it posted to
  fnArgs,         \* arguments of a direct call of another exported function
  fnPc,           \* position of that call
  fnResult,       \* what it returned, or what it threw
  disk            \* the files and directories that call reads and writes

aiVars == <<aiConfig, aiPc, aiOutcome, aiReturned, aiFetches, aiEndpoint>>

fnVars == <<fnArgs, fnPc, fnResult, disk>>

vars == <<componentName, requirements, options, env, pc, cur, testCases, inflight,
          sections, output, httpCount, aiStatusLog, gotValue, outOfOrder, aiVars, fnVars>>

----------------------------------------------------------------------------
(* Bounds of the model *)

\* largest total number of scenario entries in one requirements value
MaxScenarios == 2

\* longest string handed to normalizeTestName
MaxNameLen == 4

----------------------------------------------------------------------------
(* JavaScript values *)

Undefined == <<"<undefined>">>
Null == <<"<null>">>
EmptyString == <<>>

\* JavaScript truthiness of a string-or-undefined-or-null value
Truthy(v) == v # Undefined /\ v # Null /\ v # EmptyString

\* a || b
JsOr(a, b) == IF Truthy(a) THEN a ELSE b

\* s.startsWith(prefix), for a prefix that is one atom
StartsWith(s, prefix) == Len(s) > 0 /\ s[1] = prefix

Range(f) == {f[i] : i \in DOMAIN f}

RECURSIVE Join(_, _)
\* parts.join(sep)
Join(parts, sep) ==
  IF Len(parts) = 0 THEN <<>>
  ELSE IF Len(parts) = 1 THEN parts[1]
  ELSE parts[1] \o sep \o Join(Tail(parts), sep)

RECURSIVE Split(_, _)
\* s.split(sep), for a separator that is one atom
Split(s, sep) ==
  IF \A i \in 1..Len(s) : s[i] # sep THEN <<s>>
  ELSE LET k == CHOOSE i \in 1..Len(s) : s[i] = sep /\ \A j \in 1..(i - 1) : s[j] # sep
       IN <<SubSeq(s, 1, k - 1)>> \o Split(SubSeq(s, k + 1, Len(s)), sep)

Whitespace == {" ", "\t", "\n"}

RECURSIVE TrimLeft(_)
TrimLeft(s) == IF Len(s) > 0 /\ s[1] \in Whitespace THEN TrimLeft(Tail(s)) ELSE s

RECURSIVE TrimRight(_)
TrimRight(s) ==
  IF Len(s) > 0 /\ s[Len(s)] \in Whitespace THEN TrimRight(SubSeq(s, 1, Len(s) - 1)) ELSE s

\* s.trim()
Trim(s) == TrimRight(TrimLeft(s))

----------------------------------------------------------------------------
(* normalizeTestName *)

UpperCase == <<"A", "B", "C", "D">>
LowerCase == <<"a", "b", "c", "d">>
Digits == {"0", "1"}

\* one character of s.toLowerCase()
ToLower(c) ==
  IF \E i \in 1..Len(UpperCase) : UpperCase[i] = c
  THEN LowerCase[CHOOSE i \in 1..Len(UpperCase) : UpperCase[i] = c]
  ELSE c

\* the class [a-z0-9\s]
IsNameChar(c) ==
  \/ \E i \in 1..Len(LowerCase) : LowerCase[i] = c
  \/ c \in Digits
  \/ c \in Whitespace

RECURSIVE StripNonName(_)
\* .replace(/[^a-z0-9\s]/g, '')
StripNonName(s) ==
  IF Len(s) = 0 THEN <<>>
  ELSE IF IsNameChar(s[1]) THEN <<s[1]>> \o StripNonName(Tail(s))
  ELSE StripNonName(Tail(s))

RECURSIVE CollapseSpaces(_)
\* .replace(/\s+/g, ' ')
CollapseSpaces(s) ==
  IF Len(s) = 0 THEN <<>>
  ELSE IF s[1] \in Whitespace
       THEN <<" ">> \o CollapseSpaces(TrimLeft(s))
       ELSE <<s[1]>> \o CollapseSpaces(Tail(s))

\* normalizeTestName with trim() applied first instead of last
normalizeTestNameTrimFirst(scenario) ==
  CollapseSpaces(StripNonName(Trim([i \in 1..Len(scenario) |-> ToLower(scenario[i])])))

normalizeTestName(scenario) ==
  Trim(CollapseSpaces(StripNonName([i \in 1..Len(scenario) |-> ToLower(scenario[i])])))

----------------------------------------------------------------------------
(* ai-generator.ts *)

\* config.apiKey || process.env.OPENAI_API_KEY || process.env.GITHUB_TOKEN
ResolveApiKey(config, e) == JsOr(JsOr(config.apiKey, e.OPENAI_API_KEY), e.GITHUB_TOKEN)

\* the configuration generateTestCase passes: none, so the default {}
DefaultConfig == [apiKey |-> Undefined]

validateAIConfig(config, e) ==
  LET apiKey == ResolveApiKey(config, e) IN
  IF ~Truthy(apiKey) THEN [valid |-> FALSE, provider |-> "none"]
  ELSE IF StartsWith(apiKey, "ghp_") \/ StartsWith(apiKey, "ghs_")
       THEN [valid |-> TRUE, provider |-> "github"]
  ELSE IF StartsWith(apiKey, "sk-") THEN [valid |-> TRUE, provider |-> "openai"]
  ELSE [valid |-> FALSE, provider |-> "none"]

\* the endpoint callAI posts to
callAI(apiKey) ==
  IF StartsWith(apiKey, "ghp_") \/ StartsWith(apiKey, "ghs_")
  THEN "https://models.inference.ai.azure.com/chat/completions"
  ELSE "https://api.openai.com/v1/chat/completions"

\* the Markdown code-fence delimiter (three backquotes)
Fence == "<fence>"
FenceLangs == {"typescript", "javascript", "ts", "js"}
\* a chunk matching it\([^,]+,\s*(?:async\s*)?\([^)]*\)\s*=>\s*\{
ItWrapperOpen == "it('x', async () => {"
\* a chunk matching \}\s*\);?
ItWrapperClose == "});"

RECURSIVE StripFenceOpen(_, _)
\* code.replace(/^<fence>(?:typescript|javascript|ts|js)?\n/gm, '')
StripFenceOpen(s, atLineStart) ==
  IF Len(s) = 0 THEN <<>>
  ELSE IF atLineStart /\ s[1] = Fence /\ Len(s) >= 2 /\ s[2] = "\n"
       THEN StripFenceOpen(SubSeq(s, 3, Len(s)), TRUE)
  ELSE IF atLineStart /\ s[1] = Fence /\ Len(s) >= 3 /\ s[2] \in FenceLangs /\ s[3] = "\n"
       THEN StripFenceOpen(SubSeq(s, 4, Len(s)), TRUE)
  ELSE <<s[1]>> \o StripFenceOpen(Tail(s), s[1] = "\n")

\* code.replace(/\n<fence>$/g, '')
StripFenceClose(s) ==
  IF Len(s) >= 2 /\ s[Len(s) - 1] = "\n" /\ s[Len(s)] = Fence
  THEN SubSeq(s, 1, Len(s) - 2)
  ELSE s

\* code.match(/it\(...\{([\s\S]*)\}\s*\);?$/): the body of the leftmost wrapper
\* that the end of the text closes
UnwrapIt(code) ==
  IF Len(code) >= 2 /\ code[Len(code)] = ItWrapperClose
     /\ \E i \in 1..(Len(code) - 1) : code[i] = ItWrapperOpen
  THEN LET k == CHOOSE i \in 1..(Len(code) - 1) :
                  code[i] = ItWrapperOpen /\ \A j \in 1..(i - 1) : code[j] # ItWrapperOpen
       IN Trim(SubSeq(code, k + 1, Len(code) - 1))
  ELSE code

extractTestCode(response) ==
  Trim(UnwrapIt(StripFenceClose(StripFenceOpen(Trim(response), TRUE))))

\* callOpenAI / callGitHubModels once fetch() has settled with "outcome":
\* a rejected fetch, a non-ok status and a body without choices[0].message.content
\* each throw; otherwise the extracted content is returned
callOpenAI(outcome) ==
  IF outcome.kind = "reject" THEN [threw |-> TRUE, error |-> "network", value |-> Null]
  ELSE IF outcome.kind = "status" THEN [threw |-> TRUE, error |-> "status", value |-> Null]
  ELSE IF outcome.kind = "nocontent" THEN [threw |-> TRUE, error |-> "body", value |-> Null]
  ELSE [threw |-> FALSE, error |-> "none", value |-> extractTestCode(outcome.content)]

\* generateTestWithAI with the try block left out: what callAI throws reaches the caller
generateTestWithAINoCatch(outcome) ==
  LET r == callOpenAI(outcome) IN
  [raised |-> r.threw, value |-> r.value, error |-> r.error, kind |-> outcome.kind]

\* generateTestWithAI from line 37 on, once fetch() has settled with "outcome"
generateTestWithAI(outcome) ==
  LET r == callOpenAI(outcome) IN
  IF r.threw
  THEN [raised |-> FALSE, value |-> Null, error |-> r.error, kind |-> outcome.kind]
  ELSE [raised |-> FALSE, value |-> r.value, error |-> "none", kind |-> outcome.kind]


----------------------------------------------------------------------------
(* Atoms shared by the templates *)

\* the failing assertion of the red phase
Sentinel == "expect(true).toBe(false)"
\* opens a test-case declaration
ItOpen == "    it('should "
ItArrow == "', async () => {\n"
ItEnd == "\n  });"
\* opens a section
DescribeOpen == "  describe('"
DescribeArrow == "', () => {\n"
DescribeEnd == "\n  });"

\* s.includes(word): the literal chunks of the source that contain the word
KeyboardChunks ==
  {"be keyboard navigable", "User should be able to navigate and interact using keyboard only"}
ScreenReaderChunks == {"be accessible to screen readers"}
AriaChunks == {"Component should have proper ARIA labels and semantic HTML"}
Includes(s, chunks) == \E i \in 1..Len(s) : s[i] \in chunks

----------------------------------------------------------------------------
(* enhanced-scaffold: generateEnhancedScaffold *)

ScaffoldTypeLabel(type) ==
  CASE type = "acceptance" -> "Acceptance Criteria"
    [] type = "happy" -> "Happy Path"
    [] type = "edge" -> "Edge Case"
    [] type = "error" -> "Error Handling"
    [] type = "accessibility" -> "Accessibility"

\* a tail whose assertion passes
PassingTail == <<"\n\n    ", "expect(true).toBe(true)", "; // passes">>

RedPhaseTail == <<"\n\n    ", Sentinel, "; // This should fail (TDD - Red phase)">>

generateStandardScaffold(name, scenario, description, propsComment, eventsComment) ==
  <<"\n    // Arrange\n    const { user } = render(">> \o name \o <<", {\n      props: {">>
  \o propsComment \o <<"\n      }\n    });">> \o eventsComment
  \o <<"\n\n    // Act\n    // TODO: Implement user interactions based on scenario:\n    // ">>
  \o scenario \o <<"\n    // Examples: [interactions]\n\n    // Assert\n    // TODO: Add assertions to verify: ">>
  \o scenario \o <<"\n    // Examples: [assertions]">> \o RedPhaseTail

generateErrorScaffold(name, scenario, description, propsComment, eventsComment) ==
  <<"\n    // Arrange\n    const { user } = render(">> \o name \o <<", {\n      props: {">>
  \o propsComment \o <<"\n      }\n    });">> \o eventsComment
  \o <<"\n\n    // Act - Trigger error condition\n    // TODO: Trigger the error scenario:\n    // ">>
  \o scenario
  \o <<"\n    // Examples: [invalid input]\n\n    // Assert - Verify error handling\n    // TODO: Verify error is handled correctly:\n    // Examples: [alerts]">>
  \o RedPhaseTail

generateAccessibilityScaffold(name, scenario, description) ==
  IF Includes(description, KeyboardChunks) \/ Includes(scenario, KeyboardChunks)
  THEN <<"\n    // Arrange\n    const { user } = render(">> \o name
       \o <<");\n\n    // Act - Test keyboard navigation\n    // TODO: Test keyboard interactions:\n    // ">>
       \o scenario
       \o <<"\n    // Examples: [keyboard]\n\n    // Assert - Verify keyboard accessibility\n    ",
            Sentinel, "; // This should fail (TDD - Red phase)">>
  ELSE IF Includes(description, ScreenReaderChunks) \/ Includes(scenario, ScreenReaderChunks)
          \/ Includes(scenario, AriaChunks)
  THEN <<"\n    // Arrange\n    render(">> \o name
       \o <<");\n\n    // Assert - Check accessibility attributes\n    // TODO: Verify screen reader accessibility:\n    // ">>
       \o scenario \o <<"\n    // Examples: [accessible names]">> \o RedPhaseTail
  ELSE <<"\n    // Arrange\n    render(">> \o name
       \o <<");\n\n    // Assert - Check accessibility\n    // TODO: Verify accessibility requirement:\n    // ">>
       \o scenario \o <<"\n    // Examples: [semantic html]">> \o RedPhaseTail

\* context: [componentName, scenario, type, description, props, events]
generateEnhancedScaffold(context) ==
  LET propsComment == IF Truthy(context.props)
                      THEN <<"\n      // Required props: ">> \o context.props
                      ELSE <<"\n      // TODO: Add required props if needed">>
      eventsComment == IF Truthy(context.events)
                       THEN <<"\n    // Available events: ">> \o context.events
                       ELSE <<>>
      testBody ==
        IF context.type = "accessibility"
        THEN generateAccessibilityScaffold(context.componentName, context.scenario,
                                           context.description)
        ELSE IF context.type = "error"
        THEN generateErrorScaffold(context.componentName, context.scenario,
                                   context.description, propsComment, eventsComment)
        ELSE generateStandardScaffold(context.componentName, context.scenario,
                                      context.description, propsComment, eventsComment)
  IN <<ItOpen>> \o context.description \o <<ItArrow, "    // ", ScaffoldTypeLabel(context.type), ": ">>
     \o context.scenario \o <<"\n">> \o testBody \o <<ItEnd>>

----------------------------------------------------------------------------
(* copilot-scaffold: generateCopilotScaffold *)

CopilotTail ==
  <<"\n    ", Sentinel, "; // Remove this line after implementing the test">>

RECURSIVE CriteriaLines(_)
\* acceptanceCriteria.forEach(criteria => contextHeader += ...)
CriteriaLines(criteria) ==
  IF Len(criteria) = 0 THEN <<>>
  ELSE <<"    //   - ">> \o criteria[1] \o <<"\n">> \o CriteriaLines(Tail(criteria))

generateCopilotStandardScaffold(name, scenario, description, props, events, contextHeader) ==
  contextHeader
  \o (IF Truthy(props) THEN <<"\n    // Component props: ">> \o props ELSE <<>>)
  \o (IF Truthy(events) THEN <<"\n    // Component events: ">> \o events ELSE <<>>)
  \o <<"\n    //\n    // COPILOT INSTRUCTIONS:\n    // 1. Render the ">> \o name
  \o <<" component with appropriate props\n    // 2. Simulate user interactions that match the scenario: \"">>
  \o scenario
  \o <<"\"\n    // 3. Assert [best practices]\n\n    // STEP 1: Arrange\n    const { user } = render(">>
  \o name \o <<", {\n      props: {\n        // TODO: Add props based on: ">>
  \o (IF Truthy(props) THEN props ELSE <<"component requirements">>)
  \o <<"\n      }\n    });\n\n    // STEP 2: Act\n    // Perform the actions described in the scenario: \"">>
  \o scenario
  \o <<"\"\n    // TODO: Implement user interactions here\n\n    // STEP 3: Assert\n    // Check that the scenario requirement is met: \"">>
  \o scenario \o <<"\"\n    // TODO: Add assertions to verify: ">> \o description
  \o <<"\n\n    // TDD Red Phase: This should fail until component is implemented">>
  \o CopilotTail

generateCopilotErrorScaffold(name, scenario, description, props, events, contextHeader) ==
  contextHeader
  \o (IF Truthy(props) THEN <<"\n    // Component props: ">> \o props ELSE <<>>)
  \o (IF Truthy(events) THEN <<"\n    // Component events: ">> \o events ELSE <<>>)
  \o <<"\n    //\n    // COPILOT INSTRUCTIONS:\n    // This is an ERROR HANDLING test\n    // 1. Set up conditions that trigger the error: \"">>
  \o scenario
  \o <<"\"\n    // [error patterns]\n\n    // STEP 1: Arrange\n    const { user } = render(">>
  \o name \o <<", {\n      props: {\n        // TODO: Add props that may trigger errors: ">>
  \o (IF Truthy(props) THEN props ELSE <<"component requirements">>)
  \o <<"\n      }\n    });\n\n    // STEP 2: Act\n    // Perform actions that cause the error: \"">>
  \o scenario \o <<"\"\n    // TODO: Trigger error scenario: ">> \o scenario
  \o <<"\n\n    // STEP 3: Assert\n    // Check that errors are handled gracefully: \"">>
  \o description \o <<"\"\n    // TODO: Verify error handling: ">> \o description
  \o <<"\n\n    // TDD Red Phase: This should fail until error handling is implemented">>
  \o CopilotTail

generateCopilotAccessibilityScaffold(name, scenario, description, contextHeader) ==
  IF Includes(description, KeyboardChunks) \/ Includes(scenario, KeyboardChunks)
  THEN contextHeader
       \o <<"\n    //\n    // COPILOT INSTRUCTIONS:\n    // This is a KEYBOARD ACCESSIBILITY test\n    // Verify that: \"">>
       \o scenario \o <<"\"\n    // [keyboard patterns]\n\n    // STEP 1: Arrange\n    const { user } = render(">>
       \o name \o <<");\n\n    // STEP 2: Act\n    // Navigate through the component using keyboard: \"">>
       \o scenario \o <<"\"\n    // TODO: Implement keyboard navigation test: ">> \o scenario
       \o <<"\n\n    // STEP 3: Assert\n    // TODO: Verify keyboard accessibility: ">> \o description
       \o <<"\n\n    // TDD Red Phase">> \o CopilotTail
  ELSE IF Includes(description, ScreenReaderChunks) \/ Includes(scenario, ScreenReaderChunks)
          \/ Includes(scenario, AriaChunks)
  THEN contextHeader
       \o <<"\n    //\n    // COPILOT INSTRUCTIONS:\n    // This is a SCREEN READER ACCESSIBILITY test\n    // Verify that: \"">>
       \o scenario \o <<"\"\n    // [screen reader patterns]\n\n    // STEP 1: Arrange\n    render(">>
       \o name \o <<");\n\n    // STEP 2: Assert\n    // Verify screen reader accessibility: \"">>
       \o scenario \o <<"\"\n    // TODO: Verify screen reader accessibility: ">> \o description
       \o <<"\n\n    // TDD Red Phase">> \o CopilotTail
  ELSE contextHeader
       \o <<"\n    //\n    // COPILOT INSTRUCTIONS:\n    // This is an ACCESSIBILITY test\n    // Verify that: \"">>
       \o scenario \o <<"\"\n    // [accessibility checklist]\n\n    // STEP 1: Arrange\n    render(">>
       \o name \o <<");\n\n    // STEP 2: Assert\n    // Verify accessibility: \"">>
       \o scenario \o <<"\"\n    // TODO: Verify accessibility requirement: ">> \o description
       \o <<"\n\n    // TDD Red Phase">> \o CopilotTail

\* context: [componentName, scenario, type, description, props, events, userStory,
\*           acceptanceCriteria]
generateCopilotScaffold(context) ==
  LET contextHeader ==
        <<"    // ", ScaffoldTypeLabel(context.type), ": ">> \o context.scenario \o <<"\n">>
        \o (IF Truthy(context.userStory)
            THEN <<"    // User Story: ">> \o context.userStory \o <<"\n">> ELSE <<>>)
        \o (IF Len(context.acceptanceCriteria) > 0
            THEN <<"    // Acceptance Criteria:\n">> \o CriteriaLines(context.acceptanceCriteria)
            ELSE <<>>)
      testBody ==
        IF context.type = "accessibility"
        THEN generateCopilotAccessibilityScaffold(context.componentName, context.scenario,
                                                  context.description, contextHeader)
        ELSE IF context.type = "error"
        THEN generateCopilotErrorScaffold(context.componentName, context.scenario,
               context.description, context.props, context.events, contextHeader)
        ELSE generateCopilotStandardScaffold(context.componentName, context.scenario,
               context.description, context.props, context.events, contextHeader)
  IN <<ItOpen>> \o context.description \o <<ItArrow>> \o testBody \o <<ItEnd>>

----------------------------------------------------------------------------
(* index.ts: the pure parts of generateTestContent *)

SectionTitle(k) ==
  CASE k = 1 -> "Acceptance Criteria"
    [] k = 2 -> "Happy Path"
    [] k = 3 -> "Edge Cases"
    [] k = 4 -> "Error Handling"
    [] k = 5 -> "Accessibility"

SectionType(k) ==
  CASE k = 1 -> "acceptance"
    [] k = 2 -> "happy"
    [] k = 3 -> "edge"
    [] k = 4 -> "error"
    [] k = 5 -> "accessibility"

\* the list lines 82, 93, 104 and 115 test and hand to generateTestSection
ScenarioList(req, k) ==
  CASE k = 1 -> req.acceptanceCriteria
    [] k = 2 -> req.happyPath
    [] k = 3 -> req.edgeCases
    [] k = 4 -> req.errorCases

\* generateAccessibilitySection with the keyboard scenario left out
AccessibilityScenariosScreenReaderOnly ==
  << [description |-> <<"be accessible to screen readers">>,
      scenario |-> <<"Component should have proper ARIA labels and semantic HTML">>] >>

\* the two fixed scenarios of generateAccessibilitySection
AccessibilityScenarios ==
  << [description |-> <<"be accessible to screen readers">>,
      scenario |-> <<"Component should have proper ARIA labels and semantic HTML">>],
     [description |-> <<"be keyboard navigable">>,
      scenario |-> <<"User should be able to navigate and interact using keyboard only">>] >>

\* typeLabel of generateTestCase
CaseTypeLabel(type) ==
  CASE type = "acceptance" -> "Acceptance Criteria"
    [] type = "happy" -> "Happy Path"
    [] type = "edge" -> "Edge Case"
    [] type = "error" -> "Error Case"

\* sectionContext, lines 73-79
SectionContext(req, opts) ==
  [props |-> req.props, events |-> req.events, userStory |-> req.userStory,
   acceptanceCriteria |-> req.acceptanceCriteria, aiGenerate |-> opts.aiGenerate]

\* description of generateTestCase, lines 176-178
CaseDescription(scenario, type) ==
  IF type \in {"edge", "error"}
  THEN <<"handle ">> \o normalizeTestName(scenario)
  ELSE normalizeTestName(scenario)

\* aiResult.split('\n').map(line => "      " + line).join('\n')
IndentLines(text) ==
  LET lines == Split(text, "\n")
  IN Join([i \in 1..Len(lines) |-> <<"      ">> \o lines[i]], <<"\n">>)

\* generateTestCase with "if (aiResult)" widened to "aiResult !== undefined":
\* an absent (null) result is wrapped like a generated body
generateTestCaseWrapsNull(scenario, name, type, context, aiResult) ==
  LET description == CaseDescription(scenario, type) IN
  IF context.aiGenerate /\ aiResult # Undefined
  THEN <<ItOpen>> \o description \o <<ItArrow, "      // ", CaseTypeLabel(type), ": ">>
       \o scenario \o <<"\n">> \o IndentLines(aiResult) \o <<"\n    });">>
  ELSE generateEnhancedScaffold(
         [componentName |-> name, scenario |-> scenario, type |-> type,
          description |-> description, props |-> context.props, events |-> context.events])

\* what generateTestCase resolves to once generateTestWithAI has resolved to aiResult
\* (Null when it was not called)
generateTestCase(scenario, name, type, context, aiResult) ==
  LET description == CaseDescription(scenario, type) IN
  IF context.aiGenerate /\ Truthy(aiResult)
  THEN <<ItOpen>> \o description \o <<ItArrow, "      // ", CaseTypeLabel(type), ": ">>
       \o scenario \o <<"\n">> \o IndentLines(aiResult) \o <<"\n    });">>
  ELSE generateEnhancedScaffold(
         [componentName |-> name, scenario |-> scenario, type |-> type,
          description |-> description, props |-> context.props, events |-> context.events])

\* what the callback of generateAccessibilitySection (lines 233-264) resolves to
accessibilityTestCase(entry, name, context, aiResult) ==
  IF context.aiGenerate /\ Truthy(aiResult)
  THEN <<ItOpen>> \o entry.description \o <<ItArrow>> \o IndentLines(aiResult) \o <<"\n    });">>
  ELSE generateEnhancedScaffold(
         [componentName |-> name, scenario |-> entry.scenario, type |-> "accessibility",
          description |-> entry.description, props |-> context.props,
          events |-> context.events])

\* generateTestWithAI with the check of lines 32-35 left out
attemptStartWithoutKeyCheck(context, e) ==
  IF ~context.aiGenerate THEN "local" ELSE "fetch"

\* generateTestCase with the guard of line 188 left out
attemptStartAlways(context, e) ==
  IF ~Truthy(ResolveApiKey(DefaultConfig, e)) THEN "nokey" ELSE "fetch"

\* how a test case starts (lines 188-189 and 235-236, then ai-generator lines 30-39):
\* without aiGenerate no call of generateTestWithAI; without a key it returns null
\* at once; otherwise callAI issues one fetch()
attemptStart(context, e) ==
  IF ~context.aiGenerate THEN "local"
  ELSE IF ~Truthy(ResolveApiKey(DefaultConfig, e)) THEN "nokey"
  ELSE "fetch"

\* the section wrapper of lines 162-164 and 267-269
SectionText(title, cases) ==
  <<DescribeOpen, title, DescribeArrow>> \o Join(cases, <<"\n\n">>) \o <<DescribeEnd>>

\* lines 49-60
\* a header that also names the provider the environment selects
HeaderCommentWithProvider(name, req, opts) ==
  <<"/**\n * ">> \o name \o <<" Component Tests\n * Provider: ",
    validateAIConfig(DefaultConfig, env).provider, "\n */\n">>

HeaderComment(name, req, opts) ==
  <<"/**\n * ">> \o name \o <<" Component Tests\n">>
  \o (IF Truthy(opts.issueNumber) /\ Truthy(opts.issueTitle)
      THEN <<" * GitHub Issue #">> \o opts.issueNumber \o <<": ">> \o opts.issueTitle
           \o <<"\n *\n">>
      ELSE <<" * Auto-generated from TDD Feature CLI\n *\n">>)
  \o <<" * User Story: ">> \o req.userStory
  \o <<"\n", " *\n", " * This test file follows TDD approach - all tests should fail initially (Red phase)\n", " */\n">>

\* lines 63-68
Imports(name) ==
  <<"import { describe, it, expect, beforeEach, vi, afterEach } from 'vitest'\nimport { render, screen, waitFor } from '@/test/helpers/testing-library'\nimport { mount } from '@vue/test-utils'\nimport ">>
  \o name \o <<" from './">> \o name \o <<".vue'">>

\* lines 129-143
FileText(name, req, opts, secs) ==
  HeaderComment(name, req, opts) \o <<"\n\n">> \o Imports(name) \o <<"\n\n">>
  \o <<"describe('">> \o name
  \o <<" Component', () => {\n  beforeEach(() => {\n    vi.clearAllMocks();\n  });\n\n  afterEach(() => {\n    vi.restoreAllMocks();\n  });\n\n">>
  \o Join(secs, <<"\n\n">>) \o <<"\n});">> \o <<"\n">>

\* sections.unshift instead of sections.push
unshiftSection(secs, text) == <<text>> \o secs

\* sections.push(text)
pushSection(secs, text) == Append(secs, text)

\* validateRequirements, lines 293-321
\* null or undefined passed where the requirements object is expected
NoRequirements == [missing |-> TRUE]

ScenarioFields == {"acceptanceCriteria", "happyPath", "edgeCases", "errorCases"}

\* (requirements.field?.length ?? 0)
LengthOrZero(req, field) == IF field \in DOMAIN req THEN Len(req[field]) ELSE 0

\* validateRequirements returning at the first violated rule
validateRequirementsFirstOnly(req) ==
  IF "missing" \in DOMAIN req
  THEN [valid |-> FALSE, errors |-> <<"Requirements object is required">>, warnings |-> <<>>]
  ELSE
    LET hasScenarios == \E field \in ScenarioFields : LengthOrZero(req, field) > 0
        userStory == IF "userStory" \in DOMAIN req THEN req.userStory ELSE Undefined
        errors == IF ~hasScenarios THEN <<"At least one test scenario is required">>
                  ELSE IF ~Truthy(userStory) \/ Trim(userStory) = EmptyString
                  THEN <<"User story is required">> ELSE <<>>
    IN [valid |-> Len(errors) = 0, errors |-> errors, warnings |-> <<>>]

\* validateRequirements with the user story not trimmed
validateRequirementsNoTrim(req) ==
  IF "missing" \in DOMAIN req
  THEN [valid |-> FALSE, errors |-> <<"Requirements object is required">>, warnings |-> <<>>]
  ELSE
    LET hasScenarios == \E field \in ScenarioFields : LengthOrZero(req, field) > 0
        userStory == IF "userStory" \in DOMAIN req THEN req.userStory ELSE Undefined
        errors == (IF ~hasScenarios THEN <<"At least one test scenario is required">> ELSE <<>>)
                  \o (IF ~Truthy(userStory) THEN <<"User story is required">> ELSE <<>>)
    IN [valid |-> Len(errors) = 0, errors |-> errors, warnings |-> <<>>]

validateRequirements(req) ==
  IF "missing" \in DOMAIN req
  THEN [valid |-> FALSE, errors |-> <<"Requirements object is required">>, warnings |-> <<>>]
  ELSE
    LET hasScenarios == \/ LengthOrZero(req, "acceptanceCriteria") > 0
                        \/ LengthOrZero(req, "happyPath") > 0
                        \/ LengthOrZero(req, "edgeCases") > 0
                        \/ LengthOrZero(req, "errorCases") > 0
        userStory == IF "userStory" \in DOMAIN req THEN req.userStory ELSE Undefined
        errors == (IF ~hasScenarios THEN <<"At least one test scenario is required">> ELSE <<>>)
                  \o (IF ~Truthy(userStory) \/ Trim(userStory) = EmptyString
                      THEN <<"User story is required">> ELSE <<>>)
    IN [valid |-> Len(errors) = 0, errors |-> errors, warnings |-> <<>>]

----------------------------------------------------------------------------
(* Inputs *)

ComponentNames == {<<"Btn">>}

\* scenario sentences, character by character
ScenarioTexts == {<<"A", "!">>, <<"b", " ", " ", "c">>}

ScenarioLists == UNION {[1..n -> ScenarioTexts] : n \in 0..MaxScenarios}

\* narrative, descriptors and issue reference: every field takes each of its values
\* in some profile
Profiles ==
  { [userStory |-> <<"As a user, I want X">>, props |-> <<"label: string">>,
     events |-> <<"change">>, issueNumber |-> <<"42">>, issueTitle |-> <<"Add button">>],
    [userStory |-> <<" ", " ">>, props |-> EmptyString, events |-> EmptyString,
     issueNumber |-> Undefined, issueTitle |-> Undefined] }

\* the four scenario lists of a requirements value
ListChoices ==
  { m \in [1..4 -> ScenarioLists] :
      Len(m[1]) + Len(m[2]) + Len(m[3]) + Len(m[4]) <= MaxScenarios }

MakeRequirements(p, l) ==
  [userStory |-> p.userStory, acceptanceCriteria |-> l[1], happyPath |-> l[2],
   edgeCases |-> l[3], errorCases |-> l[4], props |-> p.props, events |-> p.events]

MakeOptions(p, a, c) ==
  [issueNumber |-> p.issueNumber, issueTitle |-> p.issueTitle, aiGenerate |-> a,
   copilotReady |-> c]

Environments ==
  { [OPENAI_API_KEY |-> Undefined, GITHUB_TOKEN |-> Undefined],
    [OPENAI_API_KEY |-> <<"sk-", "k">>, GITHUB_TOKEN |-> <<"ghp_", "t">>],
    [OPENAI_API_KEY |-> EmptyString, GITHUB_TOKEN |-> <<"ghs_", "t">>],
    [OPENAI_API_KEY |-> <<"zz">>, GITHUB_TOKEN |-> Undefined] }

\* bodies of choices[0].message.content
Contents ==
  { <<Fence, "ts", "\n", "// Arrange", "\n", "expect(x)", "\n", Fence>>,
    <<ItWrapperOpen, "\n", "// Arrange", "\n", "expect(x)", "\n", ItWrapperClose>>,
    <<" ">>,
    EmptyString }

\* how a fetch() can settle
FetchOutcomes ==
  { [kind |-> "reject", content |-> EmptyString],
    [kind |-> "status", content |-> EmptyString],
    [kind |-> "nocontent", content |-> EmptyString] }
  \cup { [kind |-> "ok", content |-> c] : c \in Contents }

Pending == <<"<pending>">>

----------------------------------------------------------------------------
(* generateTestContent as a state machine *)

\* no direct call of another function is being modelled
fnIdle ==
  /\ fnArgs = Null
  /\ fnPc = "idle"
  /\ fnResult = Null
  /\ disk = Null

Init ==
  /\ componentName \in ComponentNames
  /\ \E p \in Profiles, l \in ListChoices, a \in BOOLEAN, c \in BOOLEAN :
       /\ requirements = MakeRequirements(p, l)
       /\ options = MakeOptions(p, a, c)
  /\ env \in Environments
  /\ pc = "called"
  /\ cur = 0
  /\ testCases = <<>>
  /\ inflight = {}
  /\ sections = <<>>
  /\ output = <<>>
  /\ httpCount = 0
  /\ aiStatusLog = "none"
  /\ gotValue = FALSE
  /\ outOfOrder = FALSE
  /\ aiConfig = DefaultConfig
  /\ aiPc = "idle"
  /\ aiOutcome = "none"
  /\ aiReturned = Null
  /\ aiFetches = 0
  /\ aiEndpoint = "none"
  /\ fnIdle

inputs == <<componentName, requirements, options, env>>

\* lines 25-79: destructuring, the log about the AI configuration, header and imports
generateTestContentBegin ==
  /\ pc = "called"
  /\ aiStatusLog' =
       IF options.aiGenerate
       THEN LET config == validateAIConfig(DefaultConfig, env)
            IN IF config.valid THEN config.provider ELSE "fallback"
       ELSE "none"
  /\ pc' = "sections"
  /\ cur' = 1
  /\ UNCHANGED <<aiVars, fnVars, inputs, testCases, inflight, sections, output, httpCount, gotValue,
                 outOfOrder>>

\* an empty list: the if of lines 82, 93, 104, 115 is false
skipSection ==
  /\ pc = "sections"
  /\ cur \in 1..4
  /\ Len(ScenarioList(requirements, cur)) = 0
  /\ cur' = cur + 1
  /\ UNCHANGED <<aiVars, fnVars, inputs, pc, testCases, inflight, sections, output, httpCount, aiStatusLog,
                 gotValue, outOfOrder>>

\* generateTestSection without an await in front of it: the next section is started
\* while the requests of the previous one are pending
generateTestSectionNotAwaited ==
  /\ pc \in {"sections", "awaiting"}
  /\ LET k == IF pc = "awaiting" THEN cur + 1 ELSE cur
         context == SectionContext(requirements, options)
     IN /\ k \in 1..4
        /\ Len(ScenarioList(requirements, k)) > 0
        /\ LET list == ScenarioList(requirements, k)
               start == attemptStart(context, env)
           IN /\ testCases' = [i \in 1..Len(list) |->
                    IF start = "fetch" THEN Pending
                    ELSE generateTestCase(list[i], componentName, SectionType(k), context, Null)]
              /\ inflight' = inflight \cup
                    (IF start = "fetch"
                     THEN {[section |-> k, index |-> i] : i \in 1..Len(list)} ELSE {})
              /\ httpCount' = httpCount + (IF start = "fetch" THEN Len(list) ELSE 0)
              /\ cur' = k
  /\ pc' = "awaiting"
  /\ UNCHANGED <<aiVars, fnVars, inputs, sections, output, aiStatusLog, gotValue, outOfOrder>>

\* generateTestSection, lines 156-160: scenarios.map calls generateTestCase for every
\* scenario before any of them is awaited, so every fetch() of the section is issued here
generateTestSection ==
  /\ pc = "sections"
  /\ cur \in 1..4
  /\ Len(ScenarioList(requirements, cur)) > 0
  /\ LET list == ScenarioList(requirements, cur)
         context == SectionContext(requirements, options)
         start == attemptStart(context, env)
     IN /\ testCases' = [i \in 1..Len(list) |->
              IF start = "fetch" THEN Pending
              ELSE generateTestCase(list[i], componentName, SectionType(cur), context, Null)]
        /\ inflight' = IF start = "fetch"
                       THEN {[section |-> cur, index |-> i] : i \in 1..Len(list)} ELSE {}
        /\ httpCount' = httpCount + (IF start = "fetch" THEN Len(list) ELSE 0)
  /\ pc' = "awaiting"
  /\ UNCHANGED <<aiVars, fnVars, inputs, cur, sections, output, aiStatusLog, gotValue, outOfOrder>>

\* generateAccessibilitySection, lines 227-265, up to the await of Promise.all
generateAccessibilitySection ==
  /\ pc = "sections"
  /\ cur = 5
  /\ LET list == AccessibilityScenarios
         context == SectionContext(requirements, options)
         start == attemptStart(context, env)
     IN /\ testCases' = [i \in 1..Len(list) |->
              IF start = "fetch" THEN Pending
              ELSE accessibilityTestCase(list[i], componentName, context, Null)]
        /\ inflight' = IF start = "fetch"
                       THEN {[section |-> cur, index |-> i] : i \in 1..Len(list)} ELSE {}
        /\ httpCount' = httpCount + (IF start = "fetch" THEN Len(list) ELSE 0)
  /\ pc' = "awaiting"
  /\ UNCHANGED <<aiVars, fnVars, inputs, cur, sections, output, aiStatusLog, gotValue, outOfOrder>>

\* results.push(await ...): the slot is the first one not filled yet
firstPendingSlot(i, cases) ==
  CHOOSE j \in 1..Len(cases) : cases[j] = Pending /\ \A h \in 1..(j - 1) : cases[h] # Pending

\* Promise.all keeps the position of each promise: the result of the i-th call is the
\* i-th element, whenever it settles
resultSlot(i, cases) == i

\* a failed request is issued once more
requestsAfterFailure(r) == IF r.error # "none" THEN 1 ELSE 0

\* the catch block of generateTestWithAI returns null: no second request
retriesAfter(r) == 0

\* fetch() number i of the section settles; generateTestWithAI resolves and the rest
\* of generateTestCase (lines 199-217) or of the accessibility callback (246-263) runs
fetchSettled(i, outcome) ==
  /\ pc = "awaiting"
  /\ [section |-> cur, index |-> i] \in inflight
  /\ LET r == generateTestWithAI(outcome)
         context == SectionContext(requirements, options)
         text == IF cur = 5
                 THEN accessibilityTestCase(AccessibilityScenarios[i], componentName,
                                            context, r.value)
                 ELSE generateTestCase(ScenarioList(requirements, cur)[i], componentName,
                                       SectionType(cur), context, r.value)
     IN /\ httpCount' = httpCount + retriesAfter(r)
        /\ IF r.raised
           THEN \* Promise.all rejects, and so does generateTestContent
                /\ pc' = "rejected"
                /\ UNCHANGED <<testCases, gotValue>>
           ELSE /\ pc' = pc
                /\ testCases' = [testCases EXCEPT ![resultSlot(i, testCases)] = text]
                /\ gotValue' = (gotValue \/ r.value # Null)
        /\ inflight' = inflight \ {[section |-> cur, index |-> i]}
        /\ outOfOrder' = (outOfOrder \/ \E q \in inflight : q.index < i)
  /\ UNCHANGED <<aiVars, fnVars, inputs, cur, sections, output, aiStatusLog>>

\* Promise.all of generateTestSection resolves: lines 162-164, then sections.push
generateTestSectionReturn ==
  /\ pc = "awaiting"
  /\ cur \in 1..4
  /\ inflight = {}
  /\ sections' = pushSection(sections, SectionText(SectionTitle(cur), testCases))
  /\ testCases' = <<>>
  /\ cur' = cur + 1
  /\ pc' = "sections"
  /\ UNCHANGED <<aiVars, fnVars, inputs, inflight, output, httpCount, aiStatusLog, gotValue,
                 outOfOrder>>

\* Promise.all of generateAccessibilitySection resolves: lines 267-269, then line 126
generateAccessibilitySectionReturn ==
  /\ pc = "awaiting"
  /\ cur = 5
  /\ inflight = {}
  /\ sections' = pushSection(sections, SectionText(SectionTitle(cur), testCases))
  /\ testCases' = <<>>
  /\ cur' = cur + 1
  /\ pc' = "sections"
  /\ UNCHANGED <<aiVars, fnVars, inputs, inflight, output, httpCount, aiStatusLog, gotValue,
                 outOfOrder>>

\* lines 128-143
generateTestContentReturn ==
  /\ pc = "sections"
  /\ cur = 6
  /\ output' = FileText(componentName, requirements, options, sections)
  /\ pc' = "done"
  /\ UNCHANGED <<aiVars, fnVars, inputs, cur, testCases, inflight, sections, httpCount, aiStatusLog,
                 gotValue, outOfOrder>>

Next ==
  \/ generateTestContentBegin
  \/ skipSection
  \/ generateTestSection
  \/ generateAccessibilitySection
  \/ \E i \in 1..Len(testCases), outcome \in FetchOutcomes : fetchSettled(i, outcome)
  \/ generateTestSectionReturn
  \/ generateAccessibilitySectionReturn
  \/ generateTestContentReturn

Spec == Init /\ [][Next]_vars

----------------------------------------------------------------------------
(* One direct call of generateTestWithAI(context, config) *)

ApiKeys == {Undefined, EmptyString, <<"sk-", "k">>, <<"ghp_", "t">>, <<"ghs_", "t">>, <<"zz">>}

InitAI ==
  /\ aiConfig \in {[apiKey |-> k] : k \in ApiKeys}
  /\ env \in [OPENAI_API_KEY : ApiKeys, GITHUB_TOKEN : ApiKeys]
  /\ aiPc = "called"
  /\ aiOutcome = "none"
  /\ aiReturned = Null
  /\ aiFetches = 0
  /\ aiEndpoint = "none"
  /\ componentName \in ComponentNames
  /\ requirements = MakeRequirements(CHOOSE p \in Profiles : Truthy(p.props),
                                     [k \in 1..4 |-> <<>>])
  /\ options = MakeOptions(CHOOSE p \in Profiles : Truthy(p.props), TRUE, FALSE)
  /\ pc = "idle"
  /\ cur = 0
  /\ testCases = <<>>
  /\ inflight = {}
  /\ sections = <<>>
  /\ output = <<>>
  /\ httpCount = 0
  /\ aiStatusLog = "none"
  /\ gotValue = FALSE
  /\ outOfOrder = FALSE
  /\ fnIdle

genVars == <<componentName, requirements, options, env, pc, cur, testCases, inflight,
             sections, output, httpCount, aiStatusLog, gotValue, outOfOrder>>

\* lines 30-39: resolve the key; without one return null, otherwise callAI issues fetch()
aiCall ==
  /\ aiPc = "called"
  /\ LET apiKey == ResolveApiKey(aiConfig, env) IN
     IF ~Truthy(apiKey)
     THEN /\ aiPc' = "returned"
          /\ aiOutcome' = "nokey"
          /\ aiReturned' = Null
          /\ UNCHANGED <<aiFetches, aiEndpoint>>
     ELSE /\ aiPc' = "fetching"
          /\ aiFetches' = aiFetches + 1
          /\ aiEndpoint' = callAI(apiKey)
          /\ UNCHANGED <<aiOutcome, aiReturned>>
  /\ UNCHANGED <<aiConfig, genVars, fnVars>>

\* fetch() settles: the rest of callOpenAI / callGitHubModels and of generateTestWithAI
aiSettle(outcome) ==
  /\ aiPc = "fetching"
  /\ LET r == generateTestWithAI(outcome) IN
     /\ aiOutcome' = outcome.kind
     /\ aiPc' = IF r.raised THEN "threw" ELSE "returned"
     /\ aiReturned' = r.value
  /\ UNCHANGED <<aiConfig, aiFetches, aiEndpoint, genVars, fnVars>>

NextAI ==
  \/ aiCall
  \/ \E outcome \in FetchOutcomes : aiSettle(outcome)

SpecAI == InitAI /\ [][NextAI]_vars

----------------------------------------------------------------------------
(* Direct calls of the other exported functions *)

\* generateTestContent is not being called
genIdle ==
  /\ componentName = Null
  /\ requirements = Null
  /\ options = Null
  /\ env = Null
  /\ pc = "idle"
  /\ cur = 0
  /\ testCases = <<>>
  /\ inflight = {}
  /\ sections = <<>>
  /\ output = <<>>
  /\ httpCount = 0
  /\ aiStatusLog = "none"
  /\ gotValue = FALSE
  /\ outOfOrder = FALSE

\* generateTestWithAI is not being called directly
aiIdle ==
  /\ aiConfig = DefaultConfig
  /\ aiPc = "idle"
  /\ aiOutcome = "none"
  /\ aiReturned = Null
  /\ aiFetches = 0
  /\ aiEndpoint = "none"

----------------------------------------------------------------------------
(* The scaffold generators called directly *)

ScaffoldTypes == {"acceptance", "happy", "edge", "error", "accessibility"}

\* scenario texts: two plain ones, one that mentions the keyboard, one that mentions ARIA
ScaffoldScenarios ==
  ScenarioTexts
  \cup {<<"User should be able to navigate and interact using keyboard only">>,
        <<"Component should have proper ARIA labels and semantic HTML">>}

ScaffoldDescriptions ==
  {<<"a">>, <<"be keyboard navigable">>, <<"be accessible to screen readers">>}

ScaffoldContexts ==
  [componentName : ComponentNames,
   scenario : ScaffoldScenarios,
   type : ScaffoldTypes,
   description : ScaffoldDescriptions,
   props : {EmptyString, <<"label: string">>},
   events : {EmptyString, <<"change">>},
   userStory : {EmptyString, <<"As a user, I want X">>},
   acceptanceCriteria : {<<>>, <<<<"A", "!">>>>}]

InitScaffold ==
  /\ fnArgs \in ScaffoldContexts
  /\ fnPc = "called"
  /\ fnResult = Null
  /\ disk = Null
  /\ genIdle
  /\ aiIdle

\* generateEnhancedScaffold(context)
callEnhancedScaffold ==
  /\ fnPc = "called"
  /\ fnPc' = "enhanced"
  /\ fnResult' = generateEnhancedScaffold(fnArgs)
  /\ UNCHANGED <<fnArgs, disk, genVars, aiVars>>

\* generateCopilotScaffold(context)
callCopilotScaffold ==
  /\ fnPc = "called"
  /\ fnPc' = "copilot"
  /\ fnResult' = generateCopilotScaffold(fnArgs)
  /\ UNCHANGED <<fnArgs, disk, genVars, aiVars>>

NextScaffold == callEnhancedScaffold \/ callCopilotScaffold

SpecScaffold == InitScaffold /\ [][NextScaffold]_vars

----------------------------------------------------------------------------
(* validator.ts *)

\* The texts handed to the validator are made of these literal lines.
LineVitest == "import { describe, it, expect, beforeEach, afterEach, vi } from 'vitest'\n"
LineComponent == "import TestComponent from './TestComponent.vue'\n"
LineDescribe == "describe('TestComponent Component', () => {\n"
LineSections ==
  "  describe('Acceptance Criteria', () => {});\n  describe('Happy Path', () => {});\n  describe('Edge Cases', () => {});\n  describe('Error Handling', () => {});\n"
LineAccessibility == "  describe('Accessibility', () => {\n"
LineItLong == "    it('should be accessible to screen readers', async () => {\n"
LineItShort == "    it('should work', () => {\n"
LineRenderUser == "      const { user } = render(TestComponent);\n"
LineRender == "      render(TestComponent);\n"
LineTodo == "      // TODO: implement test\n"
LineSentinelCall == "      expect(true).toBe(false);\n"
LineRedComment == "      // Red phase\n"
LineAwait == "      await user.tab();\n"
LineBlank == "  \n"

ValidatorLines ==
  <<LineVitest, LineComponent, LineDescribe, LineSections, LineAccessibility, LineItLong,
    LineItShort, LineRenderUser, LineRender, LineTodo, LineSentinelCall, LineRedComment,
    LineAwait>>

\* the lines in which a string the validator searches for occurs
Occurs(needle) ==
  CASE needle = "describe" -> {LineVitest, LineDescribe, LineSections, LineAccessibility}
    [] needle = "it" -> {LineVitest, LineSections, LineAccessibility, LineItLong, LineItShort,
                         LineAwait}
    [] needle = "expect" -> {LineVitest, LineSentinelCall}
    [] needle = "render" -> {LineRenderUser, LineRender}
    [] needle = "TestComponent" -> {LineComponent, LineDescribe, LineRenderUser, LineRender}
    [] needle = "describe(" -> {LineDescribe, LineSections, LineAccessibility}
    [] needle = "it(" -> {LineItLong, LineItShort}
    [] needle = Sentinel -> {LineSentinelCall}
    [] needle = "// Red phase" -> {LineRedComment}
    [] needle = "// TODO:" -> {LineTodo}
    [] needle = "render(" -> {LineRenderUser, LineRender}
    [] needle = "const { user }" -> {LineRenderUser}
    [] needle = "Accessibility" -> {LineAccessibility}
    [] needle = "it(..., async (" -> {LineItLong}
    [] needle = "await " -> {LineAwait}
    [] needle = "afterEach" -> {LineVitest}
    [] needle = "import TestComponent from './TestComponent.vue'" -> {LineComponent}
    [] needle = "describe('Acceptance Criteria'," -> {LineSections}
    [] needle = "describe('Happy Path'," -> {LineSections}
    [] needle = "describe('Edge Cases'," -> {LineSections}
    [] needle = "describe('Error Handling'," -> {LineSections}
    [] needle = "describe('Accessibility'," -> {LineAccessibility}
    [] OTHER -> {}

\* testContent.includes(needle) and testContent.match(/needle/)
IncludesText(testContent, needle) ==
  \E i \in 1..Len(testContent) : testContent[i] \in Occurs(needle)

\* (testContent.match(/needle/g) || []).length, for a needle that occurs once in a line
CountMatches(testContent, needle) ==
  Cardinality({i \in 1..Len(testContent) : testContent[i] \in Occurs(needle)})

IsBlank(testContent) == \A i \in 1..Len(testContent) : testContent[i] = LineBlank

RedPhaseWarning ==
  "Tests may not follow TDD red phase pattern (no intentionally failing assertions)"

\* one message if the condition holds
MessageIf(cond, message) == IF cond THEN <<message>> ELSE <<>>

\* Check 5 of validateTestContent
hasRedPhase(testContent) ==
  IncludesText(testContent, Sentinel) \/ IncludesText(testContent, "// Red phase")

validateTestContent(testContent, name) ==
  IF IsBlank(testContent)
  THEN [valid |-> FALSE, warnings |-> <<>>, errors |-> <<"Test content is empty">>]
  ELSE
    LET errors ==
             MessageIf(~IncludesText(testContent, "describe"), "Missing required import or usage: describe")
          \o MessageIf(~IncludesText(testContent, "it"), "Missing required import or usage: it")
          \o MessageIf(~IncludesText(testContent, "expect"), "Missing required import or usage: expect")
          \o MessageIf(~IncludesText(testContent, "render"), "Missing required import or usage: render")
          \o MessageIf(~IncludesText(testContent, name), "Missing required import or usage: componentName")
          \o MessageIf(~IncludesText(testContent, "describe("), "No describe blocks found")
          \o MessageIf(~IncludesText(testContent, "it("), "No test cases (it blocks) found")
          \o MessageIf(~IncludesText(testContent, "import TestComponent from './TestComponent.vue'")
                         \/ name # "TestComponent",
                       "Component import path doesn't match expected pattern")
        warnings ==
             MessageIf(~hasRedPhase(testContent), RedPhaseWarning)
          \o MessageIf(CountMatches(testContent, "// TODO:") = 0, "No TODO comments found")
          \o MessageIf(IncludesText(testContent, "render(")
                         /\ ~IncludesText(testContent, "const { user }"),
                       "Consider using Testing Library user-event")
          \o MessageIf(~IncludesText(testContent, "Accessibility"),
                       "No accessibility test section found")
          \o MessageIf(CountMatches(testContent, "it(..., async (")
                         > CountMatches(testContent, "await "),
                       "Some async tests may be missing await statements")
          \o MessageIf(IncludesText(testContent, "vi.") /\ ~IncludesText(testContent, "afterEach"),
                       "Using vi (mocks) but missing afterEach cleanup")
    IN [valid |-> Len(errors) = 0, warnings |-> warnings, errors |-> errors]

\* the number of describe(...) openings extractDescribeBlocks finds
extractDescribeBlocks(content) ==
  4 * CountMatches(content, "describe('Happy Path',")
  + CountMatches(content, "describe(") - CountMatches(content, "describe('Happy Path',")

recommendedSections ==
  <<"describe('Acceptance Criteria',", "describe('Happy Path',", "describe('Edge Cases',",
    "describe('Error Handling',", "describe('Accessibility',">>

validateTestStructure(testContent) ==
  IF extractDescribeBlocks(testContent) = 0
  THEN [valid |-> FALSE, warnings |-> <<"No describe blocks found">>, errors |-> <<>>]
  ELSE
    LET missingSections ==
          SelectSeq(recommendedSections, LAMBDA section : ~IncludesText(testContent, section))
        \* the only short name among the lines is that of LineItShort
        nonDescriptiveTests == Cardinality({i \in 1..Len(testContent) : testContent[i] = LineItShort})
        warnings ==
             MessageIf(Len(missingSections) > 0, "Consider adding test sections")
          \o MessageIf(nonDescriptiveTests > 0, "test(s) have very short or non-descriptive names")
    IN [valid |-> Len(warnings) = 0, warnings |-> warnings, errors |-> <<>>]

performFullValidation(testContent, name) ==
  LET contentValidation == validateTestContent(testContent, name)
      structureValidation == validateTestStructure(testContent)
  IN [valid |-> contentValidation.valid /\ structureValidation.valid,
      errors |-> contentValidation.errors,
      warnings |-> contentValidation.warnings \o structureValidation.warnings,
      summary |->
        [totalErrors |-> Len(contentValidation.errors),
         totalWarnings |-> Len(contentValidation.warnings) + Len(structureValidation.warnings),
         hasAccessibilityTests |-> IncludesText(testContent, "Accessibility"),
         hasTodoComments |-> IncludesText(testContent, "// TODO:"),
         followsTddPattern |-> IncludesText(testContent, Sentinel)]]

\* the texts: every selection of the lines, in their order, and a blank text
ValidatorTexts ==
  { SelectSeq(ValidatorLines, LAMBDA l : l \in chosen) : chosen \in SUBSET Range(ValidatorLines) }
  \cup {<<LineBlank>>}

InitValidator ==
  /\ fnArgs \in [testContent : ValidatorTexts, componentName : {"TestComponent", "Other"}]
  /\ fnPc = "called"
  /\ fnResult = Null
  /\ disk = Null
  /\ genIdle
  /\ aiIdle

callValidateTestContent ==
  /\ fnPc = "called"
  /\ fnPc' = "content"
  /\ fnResult' = validateTestContent(fnArgs.testContent, fnArgs.componentName)
  /\ UNCHANGED <<fnArgs, disk, genVars, aiVars>>

callValidateTestStructure ==
  /\ fnPc = "called"
  /\ fnPc' = "structure"
  /\ fnResult' = validateTestStructure(fnArgs.testContent)
  /\ UNCHANGED <<fnArgs, disk, genVars, aiVars>>

callPerformFullValidation ==
  /\ fnPc = "called"
  /\ fnPc' = "full"
  /\ fnResult' = performFullValidation(fnArgs.testContent, fnArgs.componentName)
  /\ UNCHANGED <<fnArgs, disk, genVars, aiVars>>

NextValidator ==
  \/ callValidateTestContent
  \/ callValidateTestStructure
  \/ callPerformFullValidation

SpecValidator == InitValidator /\ [][NextValidator]_vars

----------------------------------------------------------------------------
(* validateRequirements called directly *)

UserStories == {EmptyString, <<" ", "\t">>, <<" ", "A", " ">>}

\* the fields a caller may give: each one present or left out
RequirementFields == ScenarioFields \cup {"userStory"}

\* every requirements object over the given fields, and no object at all
RequirementValues ==
  { [field \in given |->
       IF field = "userStory" THEN story ELSE IF field \in filled THEN <<<<"A", "!">>>> ELSE <<>>] :
      given \in SUBSET RequirementFields, filled \in SUBSET ScenarioFields, story \in UserStories }
  \cup {NoRequirements}

InitRequirements ==
  /\ fnArgs \in RequirementValues
  /\ fnPc = "called"
  /\ fnResult = Null
  /\ disk = Null
  /\ genIdle
  /\ aiIdle

callValidateRequirements ==
  /\ fnPc = "called"
  /\ fnPc' = "validated"
  /\ fnResult' = validateRequirements(fnArgs)
  /\ UNCHANGED <<fnArgs, disk, genVars, aiVars>>

NextRequirements == callValidateRequirements

SpecRequirements == InitRequirements /\ [][NextRequirements]_vars

----------------------------------------------------------------------------
(* normalizeTestName called directly, then again on its own result *)

\* an upper-case letter, a lower-case letter, a digit, two kinds of white space and
\* a character outside [a-z0-9\s]
NameChars == {"A", "b", "1", " ", "\t", "!"}

NameInputs == UNION { [1..n -> NameChars] : n \in 0..MaxNameLen }

InitNormalize ==
  /\ fnArgs \in NameInputs
  /\ fnPc = "called"
  /\ fnResult = <<>>
  /\ disk = Null
  /\ genIdle
  /\ aiIdle

\* normalizeTestName(s)
normalizeOnce ==
  /\ fnPc = "called"
  /\ fnPc' = "once"
  /\ fnResult' = <<normalizeTestName(fnArgs)>>
  /\ UNCHANGED <<fnArgs, disk, genVars, aiVars>>

\* normalizeTestName(normalizeTestName(s))
normalizeAgain ==
  /\ fnPc = "once"
  /\ fnPc' = "twice"
  /\ fnResult' = Append(fnResult, normalizeTestName(fnResult[1]))
  /\ UNCHANGED <<fnArgs, disk, genVars, aiVars>>

NextNormalize == normalizeOnce \/ normalizeAgain

SpecNormalize == InitNormalize /\ [][NextNormalize]_vars

----------------------------------------------------------------------------
(* generateTestContent called twice with aiGenerate=false *)

\* the first call: any inputs with aiGenerate=false, any environment
InitRepeat ==
  /\ componentName \in ComponentNames
  /\ \E p \in Profiles, l \in ListChoices, c \in BOOLEAN :
       /\ requirements = MakeRequirements(p, l)
       /\ options = MakeOptions(p, FALSE, c)
  /\ env \in Environments
  /\ pc = "called"
  /\ cur = 0
  /\ testCases = <<>>
  /\ inflight = {}
  /\ sections = <<>>
  /\ output = <<>>
  /\ httpCount = 0
  /\ aiStatusLog = "none"
  /\ gotValue = FALSE
  /\ outOfOrder = FALSE
  /\ aiIdle
  /\ fnArgs = [call |-> 1, earlierEnv |-> env]
  /\ fnPc = "first"
  /\ fnResult = Null
  /\ disk = Null

\* the first call has returned: the same arguments are passed again, later and under
\* any environment
callAgain ==
  /\ pc = "done"
  /\ fnPc = "first"
  /\ fnPc' = "second"
  /\ fnResult' = output
  /\ fnArgs' = [call |-> 2, earlierEnv |-> env]
  /\ env' \in Environments
  /\ pc' = "called"
  /\ cur' = 0
  /\ testCases' = <<>>
  /\ sections' = <<>>
  /\ output' = <<>>
  /\ aiStatusLog' = "none"
  /\ UNCHANGED <<componentName, requirements, options, inflight, httpCount, gotValue,
                 outOfOrder, aiVars, disk>>

NextRepeat ==
  \/ generateTestContentBegin
  \/ skipSection
  \/ generateTestSection
  \/ generateAccessibilitySection
  \/ generateTestSectionReturn
  \/ generateAccessibilitySectionReturn
  \/ generateTestContentReturn
  \/ callAgain

SpecRepeat == InitRepeat /\ [][NextRepeat]_vars

----------------------------------------------------------------------------
(* cli/init.ts: initTDD *)

\* content of a path that does not exist
Absent == <<"absent">>
\* content of a file the user had before initTDD ran
LocalContent == <<"local">>
\* content of the template file src
TemplateContent(src) == <<"template", src>>

FileMapping(src, dest, dir) == [src |-> src, dest |-> dest, dir |-> dir]

\* lines 61-68
CoreFiles ==
  << FileMapping("test/setup.ts", "src/test/setup.ts", "src/test"),
     FileMapping("test/helpers/index.ts", "src/test/helpers/index.ts", "src/test/helpers"),
     FileMapping("test/helpers/testing-library.ts", "src/test/helpers/testing-library.ts",
                 "src/test/helpers"),
     FileMapping("test/helpers/vue-testing.ts", "src/test/helpers/vue-testing.ts",
                 "src/test/helpers"),
     FileMapping("test/helpers/composables-testing.ts",
                 "src/test/helpers/composables-testing.ts", "src/test/helpers") >>

\* line 77
VitestConfig == FileMapping("vitest.config.ts", "vitest.config.ts", ".")

\* lines 82-86
ScriptFiles ==
  << FileMapping("scripts/tdd-feature.js", "scripts/tdd-feature.js", "scripts"),
     FileMapping("scripts/create-tdd-component.js", "scripts/create-tdd-component.js", "scripts"),
     FileMapping("scripts/generate-tests-from-issue.js", "scripts/generate-tests-from-issue.js",
                 "scripts") >>

\* lines 91-95
WorkflowFiles ==
  << FileMapping("github/workflows/auto-tdd-setup.yml", ".github/workflows/auto-tdd-setup.yml",
                 ".github/workflows"),
     FileMapping("github/workflows/tdd.yml", ".github/workflows/tdd.yml", ".github/workflows"),
     FileMapping("github/ISSUE_TEMPLATE/feature_request.md",
                 ".github/ISSUE_TEMPLATE/feature_request.md", ".github/ISSUE_TEMPLATE") >>

\* lines 100-102
CopilotFiles ==
  << FileMapping("github/copilot-instructions.md", ".github/copilot-instructions.md", ".github") >>

\* lines 106-110
DocFiles ==
  << FileMapping("docs/TDD_WORKFLOW.md", "TDD_WORKFLOW.md", "."),
     FileMapping("docs/TESTING_COMPARISON.md", "TESTING_COMPARISON.md", "."),
     FileMapping("docs/VUE_TESTING_ALIGNMENT.md", "VUE_TESTING_ALIGNMENT.md", ".") >>

AllFiles == CoreFiles \o <<VitestConfig>> \o ScriptFiles \o WorkflowFiles \o CopilotFiles \o DocFiles

Destinations == {AllFiles[i].dest : i \in 1..Len(AllFiles)}
Sources == {AllFiles[i].src : i \in 1..Len(AllFiles)}
MappingOf(dest) == CHOOSE m \in Range(AllFiles) : m.dest = dest

\* lines 60-111: the list initTDD builds from its options and from the disk
filesToCopy(opts, d) ==
  CoreFiles
  \o (IF d.files[VitestConfig.dest] # Absent /\ ~opts.force THEN <<>> ELSE <<VitestConfig>>)
  \o (IF opts.scripts THEN ScriptFiles ELSE <<>>)
  \o (IF opts.workflows THEN WorkflowFiles ELSE <<>>)
  \o (IF opts.copilot THEN CopilotFiles ELSE <<>>)
  \o (IF opts.docs THEN DocFiles ELSE <<>>)

\* lines 178-186
scriptsToAdd ==
  << <<"test", "vitest">>,
     <<"test:watch", "vitest --watch">>,
     <<"test:ui", "vitest --ui">>,
     <<"test:coverage", "vitest --coverage">>,
     <<"tdd", "vitest --watch --reporter=verbose">>,
     <<"create:component", "node scripts/create-tdd-component.js">>,
     <<"tdd:feature", "node scripts/tdd-feature.js">> >>

ScriptNames == {scriptsToAdd[i][1] : i \in 1..Len(scriptsToAdd)} \cup {"build"}

\* a script name that package.json does not define
NoScript == "<undefined>"
\* package.json absent, and package.json that is not JSON
NoManifest == [missing |-> TRUE]
BadManifest == [invalid |-> TRUE]

\* JavaScript truthiness of packageJson.scripts[name]
ScriptDefined(command) == command # NoScript /\ command # ""

\* package.json as parseJson reads it: whether it has a scripts property, the command
\* of every script name, its other properties, and how the file is laid out
Manifest(hasScripts, scripts) ==
  [hasScripts |-> hasScripts, scripts |-> scripts,
   other |-> <<"name", "my-app", "dependencies", "vue">>, layout |-> "as written by the user"]

\* InitOptions after the defaults of lines 30-36 are applied
InitOptions == [workflows : BOOLEAN, docs : BOOLEAN, scripts : BOOLEAN, copilot : BOOLEAN,
                force : BOOLEAN]

DefaultInitOptions(force) ==
  [workflows |-> TRUE, docs |-> TRUE, scripts |-> TRUE, copilot |-> FALSE, force |-> force]

\* destinations that may exist before the call, templates that may be missing
PreExistingChoices ==
  {"src/test/setup.ts", "vitest.config.ts", "scripts/tdd-feature.js", "TDD_WORKFLOW.md"}
MissingTemplateChoices ==
  {{}, {"test/setup.ts"}, {"vitest.config.ts"}, {"docs/TDD_WORKFLOW.md"}}

\* the working directory and the package's templates directory
DiskWith(existing, missing, templatesDir, manifest) ==
  [templatesDir |-> templatesDir,
   templates |-> IF templatesDir THEN Sources \ missing ELSE {},
   files |-> [dest \in Destinations |-> IF dest \in existing THEN LocalContent ELSE Absent],
   dirs |-> {"."} \cup {MappingOf(dest).dir : dest \in existing},
   manifest |-> manifest]

NoScripts == [n \in ScriptNames |-> NoScript]
PlainManifest == Manifest(TRUE, [NoScripts EXCEPT !["build"] = "vite build"])

\* manifests whose scripts test, tdd and tdd:feature are undefined, defined, or defined
\* as the empty string; and one without a scripts property
ManifestChoices ==
  { Manifest(TRUE, [NoScripts EXCEPT !["build"] = "vite build", !["test"] = a, !["tdd"] = b,
                                     !["tdd:feature"] = c]) :
      a \in {NoScript, "jest", ""}, b \in {NoScript, "jest --watch", ""},
      c \in {NoScript, "node my-feature.js"} }
  \cup {Manifest(FALSE, NoScripts), BadManifest}

InitTDD ==
  /\ \E opts \in InitOptions, existing \in SUBSET PreExistingChoices,
        missing \in MissingTemplateChoices, templatesDir \in BOOLEAN,
        manifest \in {NoManifest, PlainManifest} \cup ManifestChoices :
       /\ \/ manifest \in {NoManifest, PlainManifest}
          \/ /\ opts \in {DefaultInitOptions(TRUE), DefaultInitOptions(FALSE)}
             /\ existing \in {{}, PreExistingChoices}
             /\ missing = {}
             /\ templatesDir
       /\ disk = DiskWith(existing, missing, templatesDir, manifest)
       /\ fnArgs = [options |-> opts, before |-> disk]
  /\ fnPc = "called"
  /\ fnResult = [filesToCopy |-> <<>>, next |-> 1, copied |-> <<>>, skipped |-> <<>>,
                 error |-> "none"]
  /\ genIdle
  /\ aiIdle

\* initTDD with the package.json check of lines 48-56 left out
initTDDBeginUnchecked ==
  /\ fnPc = "called"
  /\ IF ~disk.templatesDir
     THEN /\ fnPc' = "threw"
          /\ fnResult' = [fnResult EXCEPT !.error = "Templates directory not found"]
     ELSE /\ fnPc' = "copying"
          /\ fnResult' = [fnResult EXCEPT !.filesToCopy = filesToCopy(fnArgs.options, disk)]
  /\ UNCHANGED <<fnArgs, disk, genVars, aiVars>>

\* lines 29-111: the checks, then the list of files to copy
initTDDBegin ==
  /\ fnPc = "called"
  /\ IF ~disk.templatesDir
     THEN /\ fnPc' = "threw"
          /\ fnResult' = [fnResult EXCEPT !.error = "Templates directory not found"]
     ELSE IF disk.manifest = NoManifest
     THEN /\ fnPc' = "threw"
          /\ fnResult' = [fnResult EXCEPT !.error = "No package.json found"]
     ELSE IF disk.manifest = BadManifest
     THEN /\ fnPc' = "threw"
          /\ fnResult' = [fnResult EXCEPT !.error = "JSON"]
     ELSE /\ fnPc' = "copying"
          /\ fnResult' = [fnResult EXCEPT !.filesToCopy = filesToCopy(fnArgs.options, disk)]
  /\ UNCHANGED <<fnArgs, disk, genVars, aiVars>>

\* one iteration of the loop with the test of force left out of line 128
copyFileAlways ==
  /\ fnPc = "copying"
  /\ fnResult.next <= Len(fnResult.filesToCopy)
  /\ LET file == fnResult.filesToCopy[fnResult.next] IN
     IF file.src \notin disk.templates
     THEN /\ fnResult' = [fnResult EXCEPT !.next = @ + 1]
          /\ UNCHANGED disk
     ELSE /\ disk' = [disk EXCEPT !.dirs = @ \cup {file.dir},
                                  !.files[file.dest] = TemplateContent(file.src)]
          /\ fnResult' = [fnResult EXCEPT !.next = @ + 1, !.copied = Append(@, file.dest)]
  /\ UNCHANGED <<fnArgs, fnPc, genVars, aiVars>>

\* lines 117-144: one iteration of the loop over filesToCopy
copyFile ==
  /\ fnPc = "copying"
  /\ fnResult.next <= Len(fnResult.filesToCopy)
  /\ LET file == fnResult.filesToCopy[fnResult.next] IN
     IF file.src \notin disk.templates
     THEN /\ fnResult' = [fnResult EXCEPT !.next = @ + 1]
          /\ UNCHANGED disk
     ELSE IF disk.files[file.dest] # Absent /\ ~fnArgs.options.force
     THEN /\ fnResult' = [fnResult EXCEPT !.next = @ + 1, !.skipped = Append(@, file.dest)]
          /\ UNCHANGED disk
     ELSE /\ disk' = [disk EXCEPT !.dirs = @ \cup {file.dir},
                                  !.files[file.dest] = TemplateContent(file.src)]
          /\ fnResult' = [fnResult EXCEPT !.next = @ + 1, !.copied = Append(@, file.dest)]
  /\ UNCHANGED <<fnArgs, fnPc, genVars, aiVars>>

\* lines 146-149 and 174-204: after the loop, updatePackageJson; then initTDD returns
updatePackageJson ==
  /\ fnPc = "copying"
  /\ fnResult.next > Len(fnResult.filesToCopy)
  /\ IF disk.manifest \in {NoManifest, BadManifest}
     THEN /\ fnPc' = "threw"
          /\ fnResult' = [fnResult EXCEPT !.error = "readFileSync"]
          /\ UNCHANGED disk
     ELSE LET packageJson == disk.manifest
              scripts == packageJson.scripts
              toAdd == {i \in 1..Len(scriptsToAdd) : ~ScriptDefined(scripts[scriptsToAdd[i][1]])}
              added == toAdd # {}
              updated == [n \in ScriptNames |->
                            IF \E i \in toAdd : scriptsToAdd[i][1] = n
                            THEN scriptsToAdd[CHOOSE i \in toAdd : scriptsToAdd[i][1] = n][2]
                            ELSE scripts[n]]
          IN /\ fnPc' = "returned"
             /\ disk' = IF added
                        THEN [disk EXCEPT !.manifest =
                                [hasScripts |-> TRUE, scripts |-> updated,
                                 other |-> packageJson.other,
                                 layout |-> "JSON.stringify(packageJson, null, 2)"]]
                        ELSE disk
             /\ UNCHANGED fnResult
  /\ UNCHANGED <<fnArgs, genVars, aiVars>>

NextTDD == initTDDBegin \/ copyFile \/ updatePackageJson

SpecTDD == InitTDD /\ [][NextTDD]_vars

----------------------------------------------------------------------------
(* lib/cli/create.ts: createComponent *)

AsciiUpper ==
  {"A","B","C","D","E","F","G","H","I","J","K","L","M",
   "N","O","P","Q","R","S","T","U","V","W","X","Y","Z"}
AsciiLower ==
  {"a","b","c","d","e","f","g","h","i","j","k","l","m",
   "n","o","p","q","r","s","t","u","v","w","x","y","z"}
AsciiDigits == {"0","1","2","3","4","5","6","7","8","9"}

\* line 19: !name || !/^[A-Z][a-zA-Z0-9]*$/.test(name)
ValidComponentName(name) ==
  /\ Truthy(name)
  /\ name[1] \in AsciiUpper
  /\ \A i \in 2..Len(name) : name[i] \in AsciiUpper \cup AsciiLower \cup AsciiDigits

\* line 15: the description defaults to "Component: <name>" only when it is undefined
DescriptionOf(name, opts) ==
  IF opts.description = Undefined THEN <<"Component: ">> \o name ELSE opts.description

AsciiUpperSeq ==
  <<"A","B","C","D","E","F","G","H","I","J","K","L","M",
    "N","O","P","Q","R","S","T","U","V","W","X","Y","Z">>
AsciiLowerSeq ==
  <<"a","b","c","d","e","f","g","h","i","j","k","l","m",
    "n","o","p","q","r","s","t","u","v","w","x","y","z">>

\* componentName.toLowerCase(), character by character
toLowerCase(s) ==
  [i \in 1..Len(s) |->
     IF s[i] \in AsciiUpper
     THEN AsciiLowerSeq[CHOOSE k \in 1..26 : AsciiUpperSeq[k] = s[i]]
     ELSE s[i]]

\* literal chunks of the two templates
TestIdAttribute == "data-testid=\""
ContainerSuffix == "-container"
QuoteClose == "\""
FindOpen == "expect(wrapper.find('["
FindClose == "]').exists()).toBe(true)"

\* lines 70-146: the test template interpolates the description and the name
generateTestTemplate(name, description) ==
  <<"/** * ">> \o description
    \o <<" * User Story: ... * TODO: Update this with actual requirements */",
         "import { describe, it, expect, beforeEach } from 'vitest'",
         "import ">> \o name \o <<" from './">> \o name \o <<".vue'",
         "describe('">> \o name \o <<"', () => {",
         "beforeEach(() => { wrapper = mount(">> \o name \o <<", { props: {} }) })",
         "describe('Component Initialization', () => {",
         "it('should render the component', () => {",
         FindOpen, TestIdAttribute>> \o toLowerCase(name)
    \o <<ContainerSuffix, QuoteClose, FindClose, "})",
         "it('should display the correct initial state', () => {",
         "expect(true).toBe(false)", "}) })",
         "describe('Props', ...)", "describe('User Interactions', ...)",
         "describe('Emitted Events', ...)", "describe('Accessibility', ...)",
         "describe('Edge Cases', ...)", "})">>

\* lines 148-186 with the name written as given into the data-testid
generateComponentTemplateVerbatim(name) ==
  <<"<template>", "<div ", TestIdAttribute>> \o name
    \o <<ContainerSuffix, QuoteClose, ">",
         "<!-- TODO: Implement component to pass tests -->", "<h2>">> \o name
    \o <<" Component</h2>", "<p>Implementation pending - write tests first!</p>",
         "</div>", "</template>", "<script setup lang=\"ts\">", "</script>",
         "<style scoped>", "</style>">>

\* lines 148-186: the component stub
generateComponentTemplate(name) ==
  <<"<template>", "<div ", TestIdAttribute>> \o toLowerCase(name)
    \o <<ContainerSuffix, QuoteClose, ">",
         "<!-- TODO: Implement component to pass tests -->", "<h2>">> \o name
    \o <<" Component</h2>", "<p>Implementation pending - write tests first!</p>",
         "</div>", "</template>", "<script setup lang=\"ts\">", "</script>",
         "<style scoped>", "</style>">>

CreateNameChars == {"M", "b", "2", "-"}
CreateNames == UNION { [1..n -> CreateNameChars] : n \in 0..MaxNameLen }
CreateOptions == { [description |-> d] : d \in {Undefined, EmptyString, <<"A button">>} }

\* src/components of the working directory, and the two files of the component in it
CreateDisks ==
  { [componentsDir |-> FALSE, testFile |-> Absent, componentFile |-> Absent] }
  \cup [componentsDir : {TRUE}, testFile : {Absent, LocalContent},
        componentFile : {Absent, LocalContent}]

InitCreate ==
  /\ disk \in CreateDisks
  /\ \E name \in CreateNames, opts \in CreateOptions :
       fnArgs = [name |-> name, options |-> opts, before |-> disk]
  /\ fnPc = "called"
  /\ fnResult = [error |-> "none", written |-> {}]
  /\ genIdle
  /\ aiIdle

\* lines 14-39 without the check of line 37
createComponentBeginNoComponentCheck ==
  /\ fnPc = "called"
  /\ fnArgs.name \in CreateNames
  /\ IF ~ValidComponentName(fnArgs.name)
     THEN /\ fnPc' = "threw"
          /\ fnResult' = [fnResult EXCEPT !.error = "Component name must start with a capital letter"]
          /\ UNCHANGED disk
     ELSE IF disk.testFile # Absent
     THEN /\ fnPc' = "threw"
          /\ fnResult' = [fnResult EXCEPT !.error = "Test file already exists"]
          /\ disk' = [disk EXCEPT !.componentsDir = TRUE]
     ELSE /\ fnPc' = "writeTest"
          /\ disk' = [disk EXCEPT !.componentsDir = TRUE]
          /\ UNCHANGED fnResult
  /\ UNCHANGED <<fnArgs, genVars, aiVars>>

\* lines 14-45: validate the name, create the directory, refuse existing files
createComponentBegin ==
  /\ fnPc = "called"
  /\ fnArgs.name \in CreateNames
  /\ IF ~ValidComponentName(fnArgs.name)
     THEN /\ fnPc' = "threw"
          /\ fnResult' = [fnResult EXCEPT !.error = "Component name must start with a capital letter"]
          /\ UNCHANGED disk
     ELSE IF disk.testFile # Absent
     THEN /\ fnPc' = "threw"
          /\ fnResult' = [fnResult EXCEPT !.error = "Test file already exists"]
          /\ disk' = [disk EXCEPT !.componentsDir = TRUE]
     ELSE IF disk.componentFile # Absent
     THEN /\ fnPc' = "threw"
          /\ fnResult' = [fnResult EXCEPT !.error = "Component file already exists"]
          /\ disk' = [disk EXCEPT !.componentsDir = TRUE]
     ELSE /\ fnPc' = "writeTest"
          /\ disk' = [disk EXCEPT !.componentsDir = TRUE]
          /\ UNCHANGED fnResult
  /\ UNCHANGED <<fnArgs, genVars, aiVars>>

\* line 50: fs.writeFileSync(testFile, testTemplate); a failure is rethrown at 64-67
writeTestFile ==
  /\ fnPc = "writeTest"
  /\ \/ /\ disk' = [disk EXCEPT !.testFile =
                      generateTestTemplate(fnArgs.name, DescriptionOf(fnArgs.name, fnArgs.options))]
        /\ fnResult' = [fnResult EXCEPT !.written = @ \cup {"testFile"}]
        /\ fnPc' = "writeComponent"
     \/ /\ fnPc' = "threw"
        /\ fnResult' = [fnResult EXCEPT !.error = "Failed to create files"]
        /\ UNCHANGED disk
  /\ UNCHANGED <<fnArgs, genVars, aiVars>>

\* the component file written without waiting for the test file
writeComponentFileFirst ==
  /\ fnPc \in {"writeTest", "writeComponent"}
  /\ \/ /\ disk' = [disk EXCEPT !.componentFile = generateComponentTemplate(fnArgs.name)]
        /\ fnResult' = [fnResult EXCEPT !.written = @ \cup {"componentFile"}]
        /\ fnPc' = IF fnPc = "writeTest" THEN "writeTest" ELSE "returned"
     \/ /\ fnPc' = "threw"
        /\ fnResult' = [fnResult EXCEPT !.error = "Failed to create files"]
        /\ UNCHANGED disk
  /\ UNCHANGED <<fnArgs, genVars, aiVars>>

\* line 54: fs.writeFileSync(componentFile, componentTemplate)
writeComponentFile ==
  /\ fnPc = "writeComponent"
  /\ \/ /\ disk' = [disk EXCEPT !.componentFile = generateComponentTemplate(fnArgs.name)]
        /\ fnResult' = [fnResult EXCEPT !.written = @ \cup {"componentFile"}]
        /\ fnPc' = "returned"
     \/ /\ fnPc' = "threw"
        /\ fnResult' = [fnResult EXCEPT !.error = "Failed to create files"]
        /\ UNCHANGED disk
  /\ UNCHANGED <<fnArgs, genVars, aiVars>>

NextCreate == createComponentBegin \/ writeTestFile \/ writeComponentFile

SpecCreate == InitCreate /\ [][NextCreate]_vars

----------------------------------------------------------------------------
(* scripts/generate-tests-from-issue: the top level of the script and main() *)

\* argv[2]: left out, PascalCase, or refused by the pattern of line 22
IssueScriptNames == {Undefined, <<"M", "b", "2">>, <<"m", "b">>, <<"M", "-", "b">>}

\* argv[3]: left out, a text JSON.parse throws on, or the JSON text of a value
JsonMissing == [given |-> FALSE]
JsonGarbage == [given |-> TRUE, parses |-> FALSE]
JsonOf(value) == [given |-> TRUE, parses |-> TRUE, value |-> value]

ScriptRequirements ==
  { NoRequirements,
    [userStory |-> <<" ", "A", " ">>, happyPath |-> <<<<"A", "!">>>>],
    [userStory |-> <<" ", "\t">>, happyPath |-> <<<<"A", "!">>>>],
    [userStory |-> <<" ", "A", " ">>, happyPath |-> <<>>, edgeCases |-> <<>>],
    [acceptanceCriteria |-> <<>>] }

ScriptJsons == {JsonMissing, JsonGarbage} \cup {JsonOf(r) : r \in ScriptRequirements}

\* what generateTestContent may resolve to: a text that opens with the imports and the
\* root describe of lines 63-68 and 129-143; TestComponent stands for the name given
ScriptTexts ==
  {t \in ValidatorTexts :
     Len(t) >= 3 /\ t[1] = LineVitest /\ t[2] = LineComponent /\ t[3] = LineDescribe}

ContentBlock(testContent) == <<"TEST_CONTENT_START">> \o testContent \o <<"TEST_CONTENT_END">>

InitScript ==
  /\ fnArgs \in [componentName : IssueScriptNames, requirementsJson : ScriptJsons]
  /\ fnPc = "top"
  /\ fnResult = [passed |-> <<>>, stdout |-> <<>>, exit |-> -1, testContent |-> <<>>]
  /\ disk = Null
  /\ genIdle
  /\ aiIdle

\* lines 14-30: the two checks of the arguments, then main() is called
scriptTopLevel ==
  /\ fnPc = "top"
  /\ IF ~Truthy(fnArgs.componentName) \/ ~fnArgs.requirementsJson.given
     THEN /\ fnPc' = "exited"
          /\ fnResult' = [fnResult EXCEPT !.exit = 1]
     ELSE IF ~ValidComponentName(fnArgs.componentName)
     THEN /\ fnPc' = "exited"
          /\ fnResult' = [fnResult EXCEPT !.exit = 1]
     ELSE /\ fnPc' = "main"
          /\ fnResult' = [fnResult EXCEPT !.passed = Append(@, "componentName")]
  /\ UNCHANGED <<fnArgs, disk, genVars, aiVars>>

\* lines 33-55: JSON.parse, validateRequirements, the call of generateTestContent
scriptMainBegin ==
  /\ fnPc = "main"
  /\ IF ~fnArgs.requirementsJson.parses
     THEN \* JSON.parse throws; the catch of lines 82-87
          /\ fnPc' = "exited"
          /\ fnResult' = [fnResult EXCEPT !.exit = 1]
     ELSE IF ~validateRequirements(fnArgs.requirementsJson.value).valid
     THEN /\ fnPc' = "exited"
          /\ fnResult' = [fnResult EXCEPT !.exit = 1]
     ELSE /\ fnPc' = "generating"
          /\ fnResult' = [fnResult EXCEPT !.passed = Append(@, "requirements")]
  /\ UNCHANGED <<fnArgs, disk, genVars, aiVars>>

\* generateTestContent rejects: the catch of lines 82-87
scriptGenerationRejected ==
  /\ fnPc = "generating"
  /\ fnPc' = "exited"
  /\ fnResult' = [fnResult EXCEPT !.exit = 1]
  /\ UNCHANGED <<fnArgs, disk, genVars, aiVars>>

\* lines 57-81 with the gate of lines 60-64 left out
scriptGenerationResolvedUngated ==
  /\ fnPc = "generating"
  /\ \E testContent \in ScriptTexts :
       fnResult' = [fnResult EXCEPT !.testContent = testContent,
                                    !.passed = Append(@, "content"),
                                    !.stdout = ContentBlock(testContent),
                                    !.exit = 0]
  /\ fnPc' = "exited"
  /\ UNCHANGED <<fnArgs, disk, genVars, aiVars>>

\* lines 46-81: generateTestContent resolves, performFullValidation gates the output
scriptGenerationResolved ==
  /\ fnPc = "generating"
  /\ \E testContent \in ScriptTexts :
       LET contentValidation == performFullValidation(testContent, "TestComponent") IN
       IF ~contentValidation.valid
       THEN fnResult' = [fnResult EXCEPT !.testContent = testContent, !.exit = 1]
       ELSE fnResult' = [fnResult EXCEPT !.testContent = testContent,
                                         !.passed = Append(@, "content"),
                                         !.stdout = ContentBlock(testContent),
                                         !.exit = 0]
  /\ fnPc' = "exited"
  /\ UNCHANGED <<fnArgs, disk, genVars, aiVars>>

NextScript ==
  \/ scriptTopLevel
  \/ scriptMainBegin
  \/ scriptGenerationRejected
  \/ scriptGenerationResolved

SpecScript == InitScript /\ [][NextScript]_vars

----------------------------------------------------------------------------
(* extractTestCode applied to a response body *)

MaxBodyLen == 4

\* pieces of choices[0].message.content
BodyAtoms == {Fence, "ts", "python", "\n", " ", "expect(x)"}

\* every short body, and two bodies of the usual shape: a fenced block followed by
\* prose, and a block whose fence names another language
ResponseBodies ==
  UNION { [1..n -> BodyAtoms] : n \in 0..MaxBodyLen }
  \cup { <<Fence, "ts", "\n", "expect(x)", "\n", Fence, "\n", "This test checks x.">>,
         <<Fence, "python", "\n", "expect(x)", "\n", Fence>> }

InitExtract ==
  /\ fnArgs \in ResponseBodies
  /\ fnPc = "called"
  /\ fnResult = <<>>
  /\ disk = Null
  /\ genIdle
  /\ aiIdle

callExtractTestCode ==
  /\ fnPc = "called"
  /\ fnPc' = "extracted"
  /\ fnResult' = extractTestCode(fnArgs)
  /\ UNCHANGED <<fnArgs, disk, genVars, aiVars>>

NextExtract == callExtractTestCode

SpecExtract == InitExtract /\ [][NextExtract]_vars

----------------------------------------------------------------------------
(* initTDD run a second time in the same project with the same options *)

InitTDDAgain ==
  /\ \E opts \in InitOptions, existing \in SUBSET PreExistingChoices,
        missing \in MissingTemplateChoices,
        manifest \in {PlainManifest} \cup ManifestChoices :
       /\ \/ manifest = PlainManifest
          \/ /\ opts \in {DefaultInitOptions(TRUE), DefaultInitOptions(FALSE)}
             /\ existing \in {{}, PreExistingChoices}
             /\ missing = {}
       /\ disk = DiskWith(existing, missing, TRUE, manifest)
       /\ fnArgs = [options |-> opts, before |-> disk, run |-> 1]
  /\ fnPc = "called"
  /\ fnResult = [filesToCopy |-> <<>>, next |-> 1, copied |-> <<>>, skipped |-> <<>>,
                 error |-> "none"]
  /\ genIdle
  /\ aiIdle

\* the first run has returned; initTDD is called again on the tree it left
initTDDSecondCall ==
  /\ fnPc = "returned"
  /\ fnArgs.run = 1
  /\ fnArgs' = [fnArgs EXCEPT !.before = disk, !.run = 2]
  /\ fnPc' = "called"
  /\ fnResult' = [filesToCopy |-> <<>>, next |-> 1, copied |-> <<>>, skipped |-> <<>>,
                  error |-> "none"]
  /\ UNCHANGED <<disk, genVars, aiVars>>

NextTDDAgain == initTDDBegin \/ copyFile \/ updatePackageJson \/ initTDDSecondCall

SpecTDDAgain == InitTDDAgain /\ [][NextTDDAgain]_vars

----------------------------------------------------------------------------
(* One test case built from a response body: generateTestCase and the callback of
   generateAccessibilitySection after fetch() has answered *)

CaseContext ==
  [props |-> EmptyString, events |-> EmptyString, userStory |-> <<"A">>,
   acceptanceCriteria |-> <<>>, aiGenerate |-> TRUE]

InitCase ==
  /\ fnArgs \in [body : ResponseBodies, type : {"acceptance", "edge"},
                 scenario : {<<"b", " ", " ", "c">>}, entry : 1..Len(AccessibilityScenarios)]
  /\ fnPc = "called"
  /\ fnResult = <<>>
  /\ disk = Null
  /\ genIdle
  /\ aiIdle

\* index.ts lines 170-217 with the response body as the content of the answer
callGenerateTestCase ==
  /\ fnPc = "called"
  /\ fnPc' = "case"
  /\ fnResult' = generateTestCase(fnArgs.scenario, <<"Btn">>, fnArgs.type, CaseContext,
                   generateTestWithAI([kind |-> "ok", content |-> fnArgs.body]).value)
  /\ UNCHANGED <<fnArgs, disk, genVars, aiVars>>

\* index.ts lines 233-264
callAccessibilityCase ==
  /\ fnPc = "called"
  /\ fnPc' = "accessibilityCase"
  /\ fnResult' = accessibilityTestCase(AccessibilityScenarios[fnArgs.entry], <<"Btn">>,
                   CaseContext,
                   generateTestWithAI([kind |-> "ok", content |-> fnArgs.body]).value)
  /\ UNCHANGED <<fnArgs, disk, genVars, aiVars>>

NextCase == callGenerateTestCase \/ callAccessibilityCase

SpecCase == InitCase /\ [][NextCase]_vars

----------------------------------------------------------------------------
(* lib/cli/feature.ts: the interactive wizard createFeature *)

FeatureNames == {<<"M", "b">>, <<"m", "b">>, <<"M", "-", "b">>}
FeatureAnswers == {<<"y">>, <<"Y">>, <<"n">>, EmptyString}

\* lines 19-22: the module creates the readline interface when it is loaded
InitFeature ==
  /\ disk \in CreateDisks
  /\ fnArgs \in [options : [issue : BOOLEAN], componentName : FeatureNames]
  /\ fnPc = "details"
  /\ fnResult = [rlOpen |-> TRUE, acceptanceCriteria |-> 0, issue |-> "none",
                 branch |-> "none", error |-> "none"]
  /\ genIdle
  /\ aiIdle

\* lines 35-42: the five prompts about the feature are answered
featureDetailsAnswered ==
  /\ fnPc = "details"
  /\ fnPc' = "criteria"
  /\ UNCHANGED <<fnArgs, fnResult, disk, genVars, aiVars>>

\* lines 46-48: a non-empty line is one more acceptance criterion
featureCriterionEntered ==
  /\ fnPc = "criteria"
  /\ fnResult.acceptanceCriteria < MaxScenarios
  /\ fnResult' = [fnResult EXCEPT !.acceptanceCriteria = @ + 1]
  /\ UNCHANGED <<fnArgs, fnPc, disk, genVars, aiVars>>

\* lines 46-178: the empty line ends the loop; the remaining prompts are answered,
\* then the issue is created with gh, or saved to a file, or skipped
featureIssue ==
  /\ fnPc = "criteria"
  /\ \E hasGitHubCLI \in BOOLEAN, succeeds \in BOOLEAN :
       IF ~fnArgs.options.issue
       THEN /\ fnResult' = [fnResult EXCEPT !.issue = "skipped"]
            /\ fnPc' = "askLocal"
       ELSE IF hasGitHubCLI
       THEN \* a failure of gh issue create is caught at lines 152-154
            /\ fnResult' = [fnResult EXCEPT !.issue = IF succeeds THEN "created" ELSE "failed"]
            /\ fnPc' = "askLocal"
       ELSE IF succeeds
       THEN /\ fnResult' = [fnResult EXCEPT !.issue = "saved"]
            /\ fnPc' = "askLocal"
       ELSE \* fs.writeFileSync of line 161 throws: createFeature rejects
            /\ fnResult' = [fnResult EXCEPT !.issue = "failed", !.error = "writeFileSync"]
            /\ fnPc' = "rejected"
  /\ UNCHANGED <<fnArgs, disk, genVars, aiVars>>

\* lines 181-219: the answer to "Generate local TDD setup now?", the branch, the call
\* of createComponent, the detailed test file, and rl.close()
featureLocalSetup ==
  /\ fnPc = "askLocal"
  /\ \E generateLocal \in FeatureAnswers, branchCreated \in BOOLEAN, writes \in BOOLEAN :
       IF toLowerCase(generateLocal) # <<"y">>
       THEN /\ fnResult' = [fnResult EXCEPT !.rlOpen = FALSE]
            /\ fnPc' = "returned"
            /\ UNCHANGED disk
       ELSE LET branch == IF branchCreated THEN "created" ELSE "exists" IN
            \* a failure of git checkout -b is caught at lines 190-192
            IF ~ValidComponentName(fnArgs.componentName)
            THEN /\ fnResult' = [fnResult EXCEPT !.branch = branch,
                                   !.error = "Component name must start with a capital letter"]
                 /\ fnPc' = "rejected"
                 /\ UNCHANGED disk
            ELSE IF disk.testFile # Absent \/ disk.componentFile # Absent
            THEN /\ fnResult' = [fnResult EXCEPT !.branch = branch,
                                   !.error = IF disk.testFile # Absent
                                             THEN "Test file already exists"
                                             ELSE "Component file already exists"]
                 /\ fnPc' = "rejected"
                 /\ disk' = [disk EXCEPT !.componentsDir = TRUE]
            ELSE IF ~writes
            THEN /\ fnResult' = [fnResult EXCEPT !.branch = branch,
                                   !.error = "Failed to create files"]
                 /\ fnPc' = "rejected"
                 /\ disk' = [disk EXCEPT !.componentsDir = TRUE]
            ELSE /\ fnResult' = [fnResult EXCEPT !.branch = branch, !.rlOpen = FALSE]
                 /\ fnPc' = "returned"
                 /\ disk' = [disk EXCEPT
                               !.componentsDir = TRUE,
                               !.testFile = <<"generateTestContent(componentName, requirements)">>,
                               !.componentFile = generateComponentTemplate(fnArgs.componentName)]
  /\ UNCHANGED <<fnArgs, genVars, aiVars>>

NextFeature ==
  \/ featureDetailsAnswered
  \/ featureCriterionEntered
  \/ featureIssue
  \/ featureLocalSetup

\* every prompt is answered in the end
SpecFeature == InitFeature /\ [][NextFeature]_vars /\ WF_vars(NextFeature)

----------------------------------------------------------------------------
(* Reading a generated text back *)

\* the positions of a text that hold the given atom, in increasing order
PositionsOf(text, atom) ==
  LET pos == {i \in 1..Len(text) : text[i] = atom}
  IN [n \in 1..Cardinality(pos) |->
        CHOOSE i \in pos : Cardinality({j \in pos : j < i}) = n - 1]

\* the titles of the sections of a text, in the order they appear
SectionTitlesIn(text) ==
  LET opens == PositionsOf(SubSeq(text, 1, Len(text) - 1), DescribeOpen)
  IN [n \in 1..Len(opens) |-> text[opens[n] + 1]]

\* positions at which a section with this title opens
SectionOpenings(text, title) ==
  {i \in 1..(Len(text) - 1) : text[i] = DescribeOpen /\ text[i + 1] = title}

\* the text of the (first) section with this title, up to the next section or the end
SectionBody(text, title) ==
  LET k == CHOOSE i \in SectionOpenings(text, title) :
             \A j \in SectionOpenings(text, title) : i <= j
      later == {j \in (k + 1)..Len(text) : text[j] = DescribeOpen}
      stop == IF later = {} THEN Len(text) + 1
              ELSE CHOOSE j \in later : \A h \in later : j <= h
  IN SubSeq(text, k, stop - 1)

\* the names of the test-case declarations of a text, in the order they appear
DeclaredNames(text) ==
  LET opens == PositionsOf(text, ItOpen)
      arrow(i) == CHOOSE h \in (i + 1)..Len(text) :
                    text[h] = ItArrow /\ \A g \in (i + 1)..(h - 1) : text[g] # ItArrow
  IN [n \in 1..Len(opens) |-> SubSeq(text, opens[n] + 1, arrow(opens[n]) - 1)]

Contains(text, atom) == \E i \in 1..Len(text) : text[i] = atom

\* the sections a requirements value calls for, in the order of lines 81-126
PresentSections(req) ==
  SelectSeq(<<1, 2, 3, 4, 5>>, LAMBDA k : k = 5 \/ Len(ScenarioList(req, k)) > 0)

TotalScenarios(req) ==
  Len(req.acceptanceCriteria) + Len(req.happyPath) + Len(req.edgeCases) + Len(req.errorCases)

HasCredential == Truthy(ResolveApiKey(DefaultConfig, env))

\* the names the cases of section k are declared under, in the order of the input list
ExpectedNames(req, k) ==
  IF k = 5
  THEN [i \in 1..Len(AccessibilityScenarios) |-> AccessibilityScenarios[i].description]
  ELSE [i \in 1..Len(ScenarioList(req, k)) |->
          CaseDescription(ScenarioList(req, k)[i], SectionType(k))]

\* the file generateTestContent builds when no remote generation is attempted at all
LocalCase(name, req, opts, k, i) ==
  LET context == [SectionContext(req, opts) EXCEPT !.aiGenerate = FALSE] IN
  IF k = 5
  THEN accessibilityTestCase(AccessibilityScenarios[i], name, context, Null)
  ELSE generateTestCase(ScenarioList(req, k)[i], name, SectionType(k), context, Null)

LocalText(name, req, opts) ==
  LET present == PresentSections(req)
      count(k) == IF k = 5 THEN Len(AccessibilityScenarios) ELSE Len(ScenarioList(req, k))
  IN FileText(name, req, opts,
       [n \in 1..Len(present) |->
          SectionText(SectionTitle(present[n]),
                      [i \in 1..count(present[n]) |-> LocalCase(name, req, opts, present[n], i)])])

----------------------------------------------------------------------------
(* Claims *)

\* C1: when every remote generation attempt of a run returned absent (null), the text
\* returned with aiGenerate=true is byte-identical to the text the same inputs give
\* with aiGenerate=false, which is the text built from the scaffolds alone.
C1_FallbackIdentical ==
  (pc = "done" /\ (~options.aiGenerate \/ ~gotValue))
    => output = LocalText(componentName, requirements, options)

\* a run with aiGenerate=true whose requests were issued and all came back absent
C1_Witness ==
  /\ pc = "done"
  /\ options.aiGenerate
  /\ httpCount >= 3
  /\ ~gotValue

\* C2: generateTestWithAI never raises: without a credential, after a rejected fetch,
\* after a non-success status and after a body without choices[0].message.content it
\* resolves to null.
C2_NeverRaises ==
  /\ aiPc # "threw"
  /\ (aiPc = "returned" /\ aiOutcome \in {"nokey", "reject", "status", "nocontent"})
       => aiReturned = Null

\* a call whose request was answered by a body without content, resolved to null
C2_Witness ==
  /\ aiPc = "returned"
  /\ aiOutcome = "nocontent"
  /\ aiFetches = 1
  /\ aiReturned = Null

\* C3: with requirements that validateRequirements reports invalid, generateTestContent
\* rejects before producing any text and never returns a file.
C3_RejectsInvalid ==
  ~validateRequirements(requirements).valid
    => (pc \in {"called", "rejected"} /\ sections = <<>> /\ output = <<>>)

\* the scaffold the claim C4 expects for case i of section k
ScaffoldByMode(name, req, opts, k, i) ==
  LET scenario == IF k = 5 THEN AccessibilityScenarios[i].scenario
                  ELSE ScenarioList(req, k)[i]
      description == ExpectedNames(req, k)[i]
  IN IF opts.copilotReady
     THEN generateCopilotScaffold(
            [componentName |-> name, scenario |-> scenario, type |-> SectionType(k),
             description |-> description, props |-> req.props, events |-> req.events,
             userStory |-> req.userStory, acceptanceCriteria |-> req.acceptanceCriteria])
     ELSE generateEnhancedScaffold(
            [componentName |-> name, scenario |-> scenario, type |-> SectionType(k),
             description |-> description, props |-> req.props, events |-> req.events])

\* C4: when remote generation is disabled or returned absent, the case is produced by
\* the assistant-oriented scaffold generator if copilotReady is true and by the plain
\* scaffold generator otherwise.
C4_ScaffoldByAssistantMode ==
  (pc = "awaiting" /\ (~options.aiGenerate \/ ~gotValue))
    => \A i \in 1..Len(testCases) :
         testCases[i] # Pending
           => testCases[i] = ScaffoldByMode(componentName, requirements, options, cur, i)

\* C5 as stated: at most one remote generation request is in flight at any time.
C5_AtMostOneInFlight == Cardinality(inflight) <= 1

\* C5 as amended: the requests in flight at any time all belong to the one section
\* being generated, and that section was started only after every section before it
\* was complete.
C5_OneSectionInFlight ==
  \A q \in inflight :
    /\ q.section = cur
    /\ pc = "awaiting"
    /\ q.index \in 1..Len(testCases)
    /\ testCases[q.index] = Pending
    /\ Len(sections) = Len(SelectSeq(PresentSections(requirements), LAMBDA k : k < cur))

\* two requests of one section in flight together, after an earlier section completed
C5_Witness ==
  /\ Cardinality(inflight) >= 2
  /\ Len(sections) >= 1

\* C6: within each section of the generated file the test cases appear in the order of
\* the scenarios of the input list, whatever the order in which the requests settle.
C6_CasesInInputOrder ==
  pc = "done"
    => \A k \in 1..5 :
         SectionOpenings(output, SectionTitle(k)) # {}
           => DeclaredNames(SectionBody(output, SectionTitle(k)))
                = ExpectedNames(requirements, k)

\* a generated file one of whose sections had a later request settle before an earlier one
C6_Witness ==
  /\ pc = "done"
  /\ outOfOrder
  /\ gotValue
  /\ \E k \in 1..4 : Len(ScenarioList(requirements, k)) >= 2

\* C7: without a credential every remote generation attempt returns absent and no HTTP
\* request is ever issued, for any number of scenarios.
C7_NoCredentialNoRequest ==
  ~HasCredential => (httpCount = 0 /\ inflight = {} /\ ~gotValue /\ pc # "rejected")

\* a finished run with aiGenerate=true, no credential and two scenarios besides the
\* accessibility ones
C7_Witness ==
  /\ pc = "done"
  /\ options.aiGenerate
  /\ ~HasCredential
  /\ TotalScenarios(requirements) >= 2
  /\ httpCount = 0

\* C8: the number of HTTP requests of one call is zero when aiGenerate is false and,
\* with aiGenerate true and a credential present, exactly one per scenario (the entries
\* of the four lists plus the two accessibility scenarios); a failed request is not
\* retried.
C8_OneRequestPerScenario ==
  /\ ~options.aiGenerate => httpCount = 0
  /\ httpCount <= TotalScenarios(requirements) + Len(AccessibilityScenarios)
  /\ (pc = "done" /\ options.aiGenerate /\ HasCredential)
       => httpCount = TotalScenarios(requirements) + Len(AccessibilityScenarios)

\* a finished run in which every request failed and none was issued twice
C8_Witness ==
  /\ pc = "done"
  /\ options.aiGenerate
  /\ HasCredential
  /\ ~gotValue
  /\ TotalScenarios(requirements) >= 2
  /\ httpCount = TotalScenarios(requirements) + 2

\* C9: the sections present in a generated file appear in the order Acceptance
\* Criteria, Happy Path, Edge Cases, Error Handling, Accessibility; the section of an
\* empty list is omitted.
C9_SectionOrder ==
  pc = "done"
    => SectionTitlesIn(output)
         = [n \in 1..Len(PresentSections(requirements)) |->
              SectionTitle(PresentSections(requirements)[n])]

\* a generated file with the first and the third section omitted
C9_Witness ==
  /\ pc = "done"
  /\ Len(requirements.acceptanceCriteria) = 0
  /\ Len(requirements.happyPath) > 0
  /\ Len(requirements.edgeCases) = 0
  /\ Len(requirements.errorCases) > 0

CaseBody(text) ==
  LET arrows == PositionsOf(text, ItArrow)
  IN IF Len(arrows) = 0 THEN <<>> ELSE SubSeq(text, arrows[1] + 1, Len(text))

\* C11: every test-case body a scaffold generator returns contains the failing
\* assertion expect(true).toBe(false), for each category and each accessibility
\* variant, in the plain and in the assistant-oriented generator.
C11_ScaffoldHasSentinel ==
  fnPc \in {"enhanced", "copilot"} => Contains(CaseBody(fnResult), Sentinel)

\* the assistant-oriented generator returned the generic accessibility variant
C11_Witness ==
  /\ fnPc = "copilot"
  /\ fnArgs.type = "accessibility"
  /\ ~Includes(fnArgs.description, KeyboardChunks \cup ScreenReaderChunks)
  /\ ~Includes(fnArgs.scenario, KeyboardChunks \cup ScreenReaderChunks \cup AriaChunks)
  /\ Contains(CaseBody(fnResult), Sentinel)

\* C12: the red-phase check of validateTestContent passes (no red-phase warning) if
\* and only if the text contains expect(true).toBe(false) at least once.
C12_RedPhaseIffSentinel ==
  (fnPc = "content" /\ ~IsBlank(fnArgs.testContent))
    => (~Contains(fnResult.warnings, RedPhaseWarning)
          <=> IncludesText(fnArgs.testContent, Sentinel))

\* the narrative is given and holds a character that is not white space
NarrativeGiven(req) ==
  /\ "userStory" \in DOMAIN req
  /\ \E i \in 1..Len(req.userStory) : req.userStory[i] \notin Whitespace

\* one of the four scenario lists is given and holds an entry
SomeScenarioGiven(req) ==
  \E field \in ScenarioFields : field \in DOMAIN req /\ req[field] # <<>>

\* C13: validateRequirements returns valid=true exactly when the narrative is
\* non-empty after trimming and at least one of the four scenario lists is non-empty;
\* otherwise, an absent object included, valid=false with a non-empty errors list.
C13_ValidIffComplete ==
  fnPc = "validated"
    => /\ fnResult.valid <=> /\ fnArgs # NoRequirements
                             /\ NarrativeGiven(fnArgs)
                             /\ SomeScenarioGiven(fnArgs)
       /\ ~fnResult.valid => Len(fnResult.errors) > 0

\* a valid object that gives the narrative and one list and leaves the others out
C13_Witness ==
  /\ fnPc = "validated"
  /\ fnResult.valid
  /\ DOMAIN fnArgs = {"userStory", "edgeCases"}

\* C14: performFullValidation returns valid=false only when its errors list is
\* non-empty; a text with warnings only is reported valid.
C14_InvalidOnlyWithErrors ==
  fnPc = "full" => (~fnResult.valid => Len(fnResult.errors) > 0)

\* C15: normalizeTestName is idempotent: applied to its own result it returns that
\* result unchanged.
C15_NormalizeIdempotent ==
  fnPc = "twice" => fnResult[2] = fnResult[1]

\* a string the first application changed into two words, normalized a second time
C15_Witness ==
  /\ fnPc = "twice"
  /\ fnResult[1] # fnArgs
  /\ Len(fnResult[1]) = 3
  /\ fnResult[1][2] = " "

\* C16: with aiGenerate=false two calls of generateTestContent with equal component
\* name, requirements and options return byte-identical text, whatever the
\* environment variables, the time of the call and the calls made before.
C16_RepeatIdentical ==
  (fnPc = "second" /\ pc = "done") => output = fnResult

\* the second call returned a file of three sections under another environment
C16_Witness ==
  /\ fnPc = "second"
  /\ pc = "done"
  /\ fnArgs.earlierEnv # env
  /\ Len(sections) = 3
  /\ output # <<>>

\* the destination belongs to a group of files the options ask for
Requested(opts, dest) ==
  LET among(group) == \E i \in 1..Len(group) : group[i].dest = dest
  IN \/ among(CoreFiles)
     \/ dest = VitestConfig.dest
     \/ opts.scripts /\ among(ScriptFiles)
     \/ opts.workflows /\ among(WorkflowFiles)
     \/ opts.copilot /\ among(CopilotFiles)
     \/ opts.docs /\ among(DocFiles)

TemplateExists(dest) == MappingOf(dest).src \in fnArgs.before.templates
PreExisting(dest) == fnArgs.before.files[dest] # Absent
Overwritten(dest) == PreExisting(dest) /\ disk.files[dest] # fnArgs.before.files[dest]

\* C17 as stated: a destination file that already exists is overwritten if and only if
\* force is true; with force=false every pre-existing destination file keeps its
\* content and is counted as skipped, with force=true every listed file whose
\* template exists is copied over it.
C17_OverwriteIffForce ==
  fnPc = "returned"
    => \A dest \in Destinations :
         Requested(fnArgs.options, dest)
           => /\ (~fnArgs.options.force /\ PreExisting(dest))
                   => (~Overwritten(dest) /\ dest \in Range(fnResult.skipped))
              /\ (fnArgs.options.force /\ TemplateExists(dest))
                   => disk.files[dest] = TemplateContent(MappingOf(dest).src)

\* C17 as amended: without force no pre-existing file is ever overwritten, and such a
\* file is counted as skipped exactly when it is requested, its template exists and it
\* is not vitest.config.ts; with force every requested file whose template exists is
\* copied over it, and no other file is.
C17_OverwriteIffForceAndTemplate ==
  /\ \A dest \in Destinations : Overwritten(dest) => fnArgs.options.force
  /\ fnPc = "returned"
       => \A dest \in Destinations :
            /\ Overwritten(dest)
                 <=> /\ fnArgs.options.force
                     /\ PreExisting(dest)
                     /\ Requested(fnArgs.options, dest)
                     /\ TemplateExists(dest)
            /\ dest \in Range(fnResult.skipped)
                 <=> /\ ~fnArgs.options.force
                     /\ PreExisting(dest)
                     /\ Requested(fnArgs.options, dest)
                     /\ TemplateExists(dest)
                     /\ dest # VitestConfig.dest
            /\ (fnArgs.options.force /\ Requested(fnArgs.options, dest) /\ TemplateExists(dest))
                 => disk.files[dest] = TemplateContent(MappingOf(dest).src)

\* a run without force over a directory that already holds vitest.config.ts and other
\* destination files: some files skipped, some copied
C17_Witness ==
  /\ fnPc = "returned"
  /\ ~fnArgs.options.force
  /\ PreExisting(VitestConfig.dest)
  /\ Len(fnResult.skipped) >= 2
  /\ Len(fnResult.copied) >= 1

\* C18: the manifest update changes package.json only by adding script entries whose
\* names are absent: every script already defined keeps its command and every other
\* property is unchanged, with or without force.
C18_ManifestOnlyAdds ==
  fnPc = "returned"
    => /\ disk.manifest.other = fnArgs.before.manifest.other
       /\ \A n \in ScriptNames :
            fnArgs.before.manifest.scripts[n] # NoScript
              => disk.manifest.scripts[n] = fnArgs.before.manifest.scripts[n]

\* the call of createComponent has finished, by returning or by throwing
CreateFinished == fnPc \in {"returned", "threw"}
CreateRefused ==
  \/ ~ValidComponentName(fnArgs.name)
  \/ fnArgs.before.testFile # Absent
  \/ fnArgs.before.componentFile # Absent

\* C19: createComponent throws and writes neither file when the component name is
\* not PascalCase alphanumeric or when either <Name>.test.ts or <Name>.vue already
\* exists in src/components; the content of an existing file is never changed.
C19_RefusesWithoutWriting ==
  /\ "name" \in DOMAIN fnArgs /\ CreateRefused
       => /\ fnPc \in {"called", "threw"}
          /\ fnResult.written = {}
          /\ disk.testFile = fnArgs.before.testFile
          /\ disk.componentFile = fnArgs.before.componentFile
  /\ "name" \in DOMAIN fnArgs
       => /\ fnArgs.before.testFile # Absent => disk.testFile = fnArgs.before.testFile
          /\ fnArgs.before.componentFile # Absent
               => disk.componentFile = fnArgs.before.componentFile

\* createComponent threw for a valid name because only <Name>.vue was there
C19_Witness ==
  /\ fnPc = "threw"
  /\ fnResult.error = "Component file already exists"
  /\ ValidComponentName(fnArgs.name)
  /\ fnArgs.before.testFile = Absent
  /\ disk.componentFile = LocalContent
  /\ disk.testFile = Absent

\* C20: without package.json in the working directory, or without the templates
\* directory, initTDD throws before it copies a file, creates a directory or writes
\* the manifest.
C20_ThrowsBeforeWriting ==
  (~fnArgs.before.templatesDir \/ fnArgs.before.manifest = NoManifest)
    => /\ fnPc \in {"called", "threw"}
       /\ disk = fnArgs.before
       /\ fnResult.copied = <<>>

\* initTDD threw for the missing package.json in a directory that holds other files
C20_Witness ==
  /\ fnPc = "threw"
  /\ fnResult.error = "No package.json found"
  /\ fnArgs.before.templatesDir
  /\ \E dest \in Destinations : PreExisting(dest)
  /\ \E dest \in Destinations : ~PreExisting(dest) /\ TemplateExists(dest)

\* the value of the first data-testid attribute written after position from
TestIdAfter(text, from) ==
  LET open == CHOOSE i \in from..Len(text) :
                /\ text[i] = TestIdAttribute
                /\ \A j \in from..(i - 1) : text[j] # TestIdAttribute
      close == CHOOSE i \in (open + 1)..Len(text) :
                 /\ text[i] = QuoteClose
                 /\ \A j \in (open + 1)..(i - 1) : text[j] # QuoteClose
  IN SubSeq(text, open + 1, close - 1)

\* the identifier queried by the first assertion of a test file
FirstAssertionTestId(text) ==
  TestIdAfter(text, CHOOSE i \in 1..Len(text) :
                      text[i] = FindOpen /\ \A j \in 1..(i - 1) : text[j] # FindOpen)

\* C21: for every valid component name, the data-testid of the generated component
\* stub is the lowercased name followed by -container, and the first assertion of the
\* generated test file queries that same identifier.
C21_TestIdConvention ==
  ("name" \in DOMAIN fnArgs /\ fnPc = "returned")
    => /\ TestIdAfter(disk.componentFile, 1)
            = toLowerCase(fnArgs.name) \o <<ContainerSuffix>>
       /\ FirstAssertionTestId(disk.testFile) = TestIdAfter(disk.componentFile, 1)

\* both files were written for a name with a capital after its first character
C21_Witness ==
  /\ fnPc = "returned"
  /\ Len(fnArgs.name) >= 3
  /\ \E i \in 2..Len(fnArgs.name) : fnArgs.name[i] \in AsciiUpper
  /\ disk.componentFile = generateComponentTemplate(fnArgs.name)
  /\ fnArgs.options.description # Undefined

\* C22: when the narrative is blank and all four scenario lists are empty,
\* validateRequirements reports one error for each of the two violated rules in the
\* same result.
C22_BothErrorsReported ==
  (fnPc = "validated" /\ fnArgs # NoRequirements
     /\ ~NarrativeGiven(fnArgs) /\ ~SomeScenarioGiven(fnArgs))
    => /\ Len(fnResult.errors) = 2
       /\ "At least one test scenario is required" \in Range(fnResult.errors)
       /\ "User story is required" \in Range(fnResult.errors)
       /\ ~fnResult.valid

\* a whitespace-only narrative with all four lists given and empty was validated
C22_Witness ==
  /\ fnPc = "validated"
  /\ DOMAIN fnArgs = RequirementFields
  /\ fnArgs.userStory = <<" ", "\t">>
  /\ \A field \in ScenarioFields : fnArgs[field] = <<>>
  /\ Len(fnResult.errors) = 2

\* C23: when remote generation is requested with a credential that validateAIConfig
\* reports invalid (its prefix is none of ghp_, ghs_, sk-), no HTTP request is issued
\* and every test case of the file comes from the local scaffold.
C23_InvalidCredentialNoRequest ==
  (pc # "idle" /\ options.aiGenerate /\ HasCredential
     /\ ~validateAIConfig(DefaultConfig, env).valid)
    => /\ httpCount = 0
       /\ inflight = {}
       /\ pc = "done" => output = LocalText(componentName, requirements, options)

\* C24: the generate-tests-from-issue script prints the TEST_CONTENT_START /
\* TEST_CONTENT_END block and exits 0 only after the component-name check, the
\* validation of the requirements and the full validation of the content have passed,
\* in that order; on any failure it exits 1 without printing the block.
C24_GatesBeforeOutput ==
  "requirementsJson" \in DOMAIN fnArgs
    => /\ fnResult.stdout # <<>>
            => /\ fnResult.passed = <<"componentName", "requirements", "content">>
               /\ ValidComponentName(fnArgs.componentName)
               /\ validateRequirements(fnArgs.requirementsJson.value).valid
               /\ performFullValidation(fnResult.testContent, "TestComponent").valid
               /\ fnResult.stdout = ContentBlock(fnResult.testContent)
       /\ fnResult.exit = 0 => fnResult.stdout # <<>>
       /\ fnPc = "exited" => fnResult.exit \in {0, 1}
       /\ fnResult.exit = 1 => fnResult.stdout = <<>>
       /\ (fnPc = "exited" /\ fnResult.passed # <<"componentName", "requirements", "content">>)
            => fnResult.exit = 1

\* the script printed the block and exited 0
C24_Witness ==
  /\ fnPc = "exited"
  /\ fnResult.exit = 0
  /\ Len(fnResult.stdout) > 2
  /\ LineAccessibility \in Range(fnResult.testContent)

\* C25: the text extractTestCode returns contains no Markdown code-fence delimiter,
\* for every response body, a body with prose after the closing fence and a body
\* whose fence carries another language tag included.
C25_NoFenceLeft ==
  fnPc = "extracted" => Fence \notin Range(fnResult)

\* C26: in every run of createComponent the component file is written only after the
\* test file has been written: in no state has the call created <Name>.vue while it
\* has not created <Name>.test.ts.
C26_TestFileFirst ==
  "name" \in DOMAIN fnArgs
    => /\ "componentFile" \in fnResult.written => "testFile" \in fnResult.written
       /\ disk.componentFile # fnArgs.before.componentFile
            => disk.testFile
                 = generateTestTemplate(fnArgs.name, DescriptionOf(fnArgs.name, fnArgs.options))

\* the call wrote both files into a directory it had to create
C26_Witness ==
  /\ fnPc = "returned"
  /\ ~fnArgs.before.componentsDir
  /\ fnResult.written = {"testFile", "componentFile"}
  /\ disk.componentFile # Absent

\* C27: createComponent creates both files or neither: whenever the call throws, a
\* failed file write included, it has created neither <Name>.test.ts nor <Name>.vue.
C27_BothOrNeither ==
  ("name" \in DOMAIN fnArgs /\ fnPc = "threw")
    => /\ fnResult.written = {}
       /\ disk.testFile = fnArgs.before.testFile
       /\ disk.componentFile = fnArgs.before.componentFile

\* the second run of initTDD in SpecTDDAgain, made without force
SecondRunNoForce ==
  /\ "run" \in DOMAIN fnArgs
  /\ fnArgs.run = 2
  /\ ~fnArgs.options.force

\* C28: a second run of initTDD with the same options and force=false, after a first
\* run that succeeded, copies no file and does not rewrite package.json: the project
\* tree is the same before and after the second run.
C28_SecondRunChangesNothing ==
  SecondRunNoForce
    => /\ fnPc # "threw"
       /\ fnResult.copied = <<>>
       /\ disk = fnArgs.before
       /\ \A i \in 1..Len(scriptsToAdd) : ScriptDefined(disk.manifest.scripts[scriptsToAdd[i][1]])

\* the second run returned after skipping files the first run had copied, in a
\* project whose manifest the first run had extended
C28_Witness ==
  /\ SecondRunNoForce
  /\ fnPc = "returned"
  /\ Len(fnResult.skipped) >= 3
  /\ \E dest \in Destinations :
       fnArgs.before.files[dest] \notin {Absent, LocalContent}
  /\ fnArgs.before.manifest.layout = "JSON.stringify(packageJson, null, 2)"

\* the scaffold of the case that was asked for in SpecCase
CaseScaffold ==
  LET local == [CaseContext EXCEPT !.aiGenerate = FALSE] IN
  IF fnPc = "accessibilityCase"
  THEN accessibilityTestCase(AccessibilityScenarios[fnArgs.entry], <<"Btn">>, local, Null)
  ELSE generateTestCase(fnArgs.scenario, <<"Btn">>, fnArgs.type, local, Null)

\* what stands between the opening of a wrapped case and its closing line
WrappedBody ==
  LET opening ==
        IF fnPc = "accessibilityCase"
        THEN 2 + Len(AccessibilityScenarios[fnArgs.entry].description)
        ELSE 6 + Len(CaseDescription(fnArgs.scenario, fnArgs.type)) + Len(fnArgs.scenario)
  IN SubSeq(fnResult, opening + 1, Len(fnResult) - 1)

\* C29: a response whose extracted text is empty is treated as absent: the case is
\* then produced by the local scaffold, so no generated test case has an empty body.
C29_EmptyBodyFallsBack ==
  fnPc \in {"case", "accessibilityCase"}
    => /\ extractTestCode(fnArgs.body) = <<>> => fnResult = CaseScaffold
       /\ fnResult # CaseScaffold
            => \E i \in 1..Len(WrappedBody) : WrappedBody[i] \notin Whitespace \cup {"      "}

\* a body of blanks around an emptied fence gave the scaffold of an edge case
C29_Witness ==
  /\ fnPc = "case"
  /\ fnArgs.type = "edge"
  /\ Len(fnArgs.body) >= 3
  /\ Fence \in Range(fnArgs.body)
  /\ extractTestCode(fnArgs.body) = <<>>
  /\ fnResult = CaseScaffold

\* C30: every run of the createFeature wizard eventually closes its prompt interface,
\* runs in which the creation of the issue, of the branch or of the local component
\* fails included.
C30_InterfaceClosed ==
  <>("rlOpen" \in DOMAIN fnResult /\ ~fnResult.rlOpen)

====
